---- MODULE Spec2Model ----
(***************************************************************************)
(* A model of the interpreter in src/basics.py: the Lexer, the Parser, the *)
(* Interpreter and run().  Source text is a sequence of one-character      *)
(* strings.  A Python exception that escapes a function is the outcome     *)
(* "exc" of that function, carried to its callers.                         *)
(***************************************************************************)
EXTENDS Integers, Sequences, FiniteSets, TLC

\* ------------------------------------------------------------------------
\* Bounds of the model
\* ------------------------------------------------------------------------
MaxLen == 3

MaxRuns == 2

\* iterations of for and while loops that one call of run may make
MaxIter == 4

\* steps that one call of the interpreter may make
MaxSteps == 4096

\* ------------------------------------------------------------------------
\* Character classes and keywords (src/basics.py 11-13, 141-157)
\* ------------------------------------------------------------------------
DIGITS == {"0", "1", "2", "3", "4", "5", "6", "7", "8", "9"}

NUM_CHARS == DIGITS \cup {"."}

LETTERS == {"a", "b", "c", "d", "e", "f", "g", "h", "i", "j", "k", "l", "m",
            "n", "o", "p", "q", "r", "s", "t", "u", "v", "w", "x", "y", "z",
            "A", "B", "C", "D", "E", "F", "G", "H", "I", "J", "K", "L", "M",
            "N", "O", "P", "Q", "R", "S", "T", "U", "V", "W", "X", "Y", "Z"}

LETTERS_DIGITS == LETTERS \cup DIGITS

KEYWORDS == { <<"v","a","r">>, <<"a","n","d">>, <<"o","r">>, <<"n","o","t">>,
              <<"i","f">>, <<"e","l","i","f">>, <<"t","h","e","n">>,
              <<"e","l","s","e">>, <<"f","o","r">>, <<"t","o">>,
              <<"s","t","e","p">>, <<"d","o">>, <<"w","h","i","l","e">>,
              <<"f","u","n","c">>, <<"e","n","d">> }

\* Python's None where a character, a position or a value is expected
NoChar == "None"

NoPos == [idx |-> -2, ln |-> -2, col |-> -2]

NoValue == [k |-> "none"]

NoErr == [name |-> "None"]

IsErr(e) == e.name # "None"

\* ------------------------------------------------------------------------
\* ERROR (src/basics.py 20-53)
\* ------------------------------------------------------------------------
IllegalCharError(start_pos, end_pos, error_message) ==
    [name |-> "IllegalCharacterError", msg |-> error_message,
     start_pos |-> start_pos, end_pos |-> end_pos, context |-> 0]

ExpectedCharError(start_pos, end_pos, error_message) ==
    [name |-> "ExpectedCharacterError", msg |-> <<"Expected ">> \o error_message,
     start_pos |-> start_pos, end_pos |-> end_pos, context |-> 0]

InvalidSyntaxError(start_pos, end_pos, error_message) ==
    [name |-> "InvalidSyntaxError", msg |-> error_message,
     start_pos |-> start_pos, end_pos |-> end_pos, context |-> 0]

RuntimeError_(start_pos, end_pos, error_message, context) ==
    [name |-> "RuntimeError", msg |-> error_message,
     start_pos |-> start_pos, end_pos |-> end_pos, context |-> context]

\* ------------------------------------------------------------------------
\* POSITION (src/basics.py 80-100)
\* ------------------------------------------------------------------------
Position(idx, ln, col) == [idx |-> idx, ln |-> ln, col |-> col]

PosAdvance(pos, curr_char) ==
    IF curr_char = "\n"
    THEN [idx |-> pos.idx + 1, ln |-> pos.ln + 1, col |-> 0]
    ELSE [idx |-> pos.idx + 1, ln |-> pos.ln, col |-> pos.col + 1]

\* ------------------------------------------------------------------------
\* TOKEN (src/basics.py 160-183)
\* ------------------------------------------------------------------------
\* Token(type_, value, start_pos): end_pos is start_pos advanced once
Token1(type_, value, start_pos) ==
    [type |-> type_, value |-> value, start_pos |-> start_pos,
     end_pos |-> PosAdvance(start_pos, NoChar)]

\* Token(type_, value, start_pos, end_pos)
Token2(type_, value, start_pos, end_pos) ==
    [type |-> type_, value |-> value, start_pos |-> start_pos,
     end_pos |-> end_pos]

StrValue(s) == [k |-> "str", s |-> s]

IntValue(n) == [k |-> "int", n |-> n]

FloatValue(num, den) == [k |-> "float", num |-> num, den |-> den]

\* Token.match(type_, value) for a keyword
Match(token, type_, word) ==
    /\ token.type = type_
    /\ token.value.k = "str"
    /\ token.value.s = word

\* ------------------------------------------------------------------------
\* LEXER (src/basics.py 186-408)
\* A lexer state is [text, pos, ch, tokens, st, error]; st is "run" while
\* tokenize loops, "ok" / "err" for its two returns, "exc" for an exception.
\* ------------------------------------------------------------------------
CharAt(text, idx) == IF idx < Len(text) THEN text[idx + 1] ELSE NoChar

LexAdvance(lx) ==
    LET p == PosAdvance(lx.pos, lx.ch)
    IN  [lx EXCEPT !.pos = p, !.ch = CharAt(lx.text, p.idx)]

LexerNew(text) ==
    LexAdvance([text |-> text, pos |-> Position(-1, 0, -1), ch |-> NoChar,
                tokens |-> <<>>, st |-> "run", error |-> NoErr])

Emit(lx, token) == [lx EXCEPT !.tokens = Append(@, token)]

DigitVal(c) ==
    CASE c = "0" -> 0 [] c = "1" -> 1 [] c = "2" -> 2 [] c = "3" -> 3
      [] c = "4" -> 4 [] c = "5" -> 5 [] c = "6" -> 6 [] c = "7" -> 7
      [] c = "8" -> 8 [] c = "9" -> 9

RECURSIVE PyInt(_)
PyInt(s) ==
    IF s = <<>> THEN 0
    ELSE 10 * PyInt(SubSeq(s, 1, Len(s) - 1)) + DigitVal(s[Len(s)])

RECURSIVE Pow10(_)
Pow10(n) == IF n = 0 THEN 1 ELSE 10 * Pow10(n - 1)

DotIndex(s) == CHOOSE i \in 1..Len(s) : s[i] = "."

\* float(num_str) of a string of digits holding exactly one dot; the string
\* "." alone has no float value (ValueError)
PyFloatOk(s) == Len(s) > 1

PyFloat(s) ==
    LET d == DotIndex(s)
        digits == SubSeq(s, 1, d - 1) \o SubSeq(s, d + 1, Len(s))
    IN  FloatValue(PyInt(digits), Pow10(Len(s) - d))

RECURSIVE NumberLoop(_, _, _)
NumberLoop(lx, num_str, dot_count) ==
    IF lx.ch # NoChar /\ lx.ch \in NUM_CHARS
    THEN IF lx.ch = "." /\ dot_count = 1
         THEN <<lx, num_str, dot_count>>
         ELSE NumberLoop(LexAdvance(lx), Append(num_str, lx.ch),
                         IF lx.ch = "." THEN dot_count + 1 ELSE dot_count)
    ELSE <<lx, num_str, dot_count>>

_make_number(lx) ==
    LET start_pos == lx.pos
        r == NumberLoop(lx, <<>>, 0)
        lx2 == r[1]
        num_str == r[2]
        dot_count == r[3]
    IN  IF dot_count = 0
        THEN Emit(lx2, Token2("INT", IntValue(PyInt(num_str)), start_pos, lx2.pos))
        ELSE IF PyFloatOk(num_str)
             THEN Emit(lx2, Token2("FLOAT", PyFloat(num_str), start_pos, lx2.pos))
             ELSE [lx2 EXCEPT !.st = "exc"]

RECURSIVE IdentLoop(_, _)
IdentLoop(lx, id_str) ==
    IF lx.ch # NoChar /\ lx.ch \in (LETTERS_DIGITS \cup {"_"})
    THEN IdentLoop(LexAdvance(lx), Append(id_str, lx.ch))
    ELSE <<lx, id_str>>

_make_identifier(lx) ==
    LET start_pos == lx.pos
        r == IdentLoop(lx, <<>>)
        token_type == IF r[2] \in KEYWORDS THEN "KEYWORD" ELSE "IDENTIFIER"
    IN  Emit(r[1], Token2(token_type, StrValue(r[2]), start_pos, r[1].pos))

\* _make_eq, _make_lt, _make_gt, _make_minus_or_arrow share one shape
MakeTwoChar(lx, second, one_type, two_type) ==
    LET start_pos == lx.pos
        lx1 == LexAdvance(lx)
    IN  IF lx1.ch # second
        THEN Emit(lx1, Token2(one_type, NoValue, start_pos, lx1.pos))
        ELSE LET lx2 == LexAdvance(lx1)
             IN  Emit(lx2, Token2(two_type, NoValue, start_pos, lx2.pos))

_make_eq(lx) == MakeTwoChar(lx, "=", "EQ", "EE")

_make_lt(lx) == MakeTwoChar(lx, "=", "LT", "LTE")

_make_gt(lx) == MakeTwoChar(lx, "=", "GT", "GTE")

_make_minus_or_arrow(lx) == MakeTwoChar(lx, ">", "MINUS", "ARROW")

\* returns the lexer with the NE token emitted, or with error set
_make_neq(lx) ==
    LET start_pos == lx.pos
        lx1 == LexAdvance(lx)
    IN  IF lx1.ch = "="
        THEN LET lx2 == LexAdvance(lx1)
             IN  Emit(lx2, Token2("NE", NoValue, start_pos, lx2.pos))
        ELSE LET lx2 == LexAdvance(lx1)
             IN  [lx2 EXCEPT !.error =
                    ExpectedCharError(start_pos, lx2.pos, <<"'=' after '!'">>)]

EscapeChar(c) ==
    CASE c = "n" -> "\n" [] c = "t" -> "\t" [] c = "r" -> "\r" [] OTHER -> c

RECURSIVE StringLoop(_, _, _)
StringLoop(lx, str, escape_char) ==
    IF lx.ch # NoChar /\ (lx.ch # "\"" \/ escape_char)
    THEN IF escape_char
         THEN StringLoop(LexAdvance(lx), Append(str, EscapeChar(lx.ch)), FALSE)
         ELSE IF lx.ch = "\\"
              THEN StringLoop(LexAdvance(lx), str, TRUE)
              ELSE StringLoop(LexAdvance(lx), Append(str, lx.ch), FALSE)
    ELSE <<lx, str>>

_make_string(lx) ==
    LET start_pos == lx.pos
        r == StringLoop(LexAdvance(lx), <<>>, FALSE)
        lx2 == LexAdvance(r[1])
    IN  Emit(lx2, Token2("STRING", StrValue(r[2]), start_pos, lx2.pos))

SingleCharType(c) ==
    CASE c = "+" -> "PLUS" [] c = "*" -> "MUL" [] c = "/" -> "DIV"
      [] c = "^" -> "POW" [] c = "(" -> "LPAREN" [] c = ")" -> "RPAREN"
      [] c = "," -> "COMMA" [] c = "[" -> "LSQUARE" [] c = "]" -> "RSQUARE"
      [] c = ";" -> "NEWLINE" [] c = "\n" -> "NEWLINE"

SINGLE_CHARS == {"+", "*", "/", "^", "(", ")", ",", "[", "]", ";", "\n"}

\* the branches of the loop of tokenize (src/basics.py 212-271)
TokWhitespace(lx) == LexAdvance(lx)

TokNumber(lx) == _make_number(lx)

TokIdentifier(lx) == _make_identifier(lx)

TokSingle(lx) ==
    LexAdvance(Emit(lx, Token1(SingleCharType(lx.ch), NoValue, lx.pos)))

TokMinus(lx) == _make_minus_or_arrow(lx)

TokEq(lx) == LexAdvance(_make_eq(lx))

\* tokenize returning the tokens made so far along with the error
TokNeq_KeepTokens(lx) ==
    LET r == _make_neq(lx)
    IN  IF IsErr(r.error) THEN [r EXCEPT !.st = "err"] ELSE r

TokNeq(lx) ==
    LET r == _make_neq(lx)
    IN  IF IsErr(r.error) THEN [r EXCEPT !.tokens = <<>>, !.st = "err"] ELSE r

TokLt(lx) == LexAdvance(_make_lt(lx))

TokGt(lx) == LexAdvance(_make_gt(lx))

TokString(lx) == _make_string(lx)

TokIllegal(lx) ==
    LET start_pos == lx.pos
        illegal_char == lx.ch
        lx1 == LexAdvance(lx)
    IN  [lx1 EXCEPT !.tokens = <<>>, !.st = "err",
                    !.error = IllegalCharError(start_pos, lx1.pos,
                                               <<"'", illegal_char, "'">>)]

\* tokenize returning without the EOF token
TokEOF_NoToken(lx) == [lx EXCEPT !.st = "ok"]

\* after the loop (src/basics.py 273-276)
TokEOF(lx) == [Emit(lx, Token1("EOF", NoValue, lx.pos)) EXCEPT !.st = "ok"]

CharClass(c) ==
    CASE c = NoChar -> "eof"
      [] c \in {" ", "\t"} -> "ws"
      [] c \in NUM_CHARS -> "num"
      [] c \in LETTERS -> "letter"
      [] c = "-" -> "minus"
      [] c = "=" -> "eq"
      [] c = "!" -> "neq"
      [] c = "<" -> "lt"
      [] c = ">" -> "gt"
      [] c = "\"" -> "string"
      [] c \in SINGLE_CHARS -> "single"
      [] OTHER -> "illegal"

\* one iteration of the loop of tokenize, or its exit
TokStep(lx) ==
    LET cls == CharClass(lx.ch)
    IN  CASE cls = "eof" -> TokEOF(lx)
          [] cls = "ws" -> TokWhitespace(lx)
          [] cls = "num" -> TokNumber(lx)
          [] cls = "letter" -> TokIdentifier(lx)
          [] cls = "minus" -> TokMinus(lx)
          [] cls = "eq" -> TokEq(lx)
          [] cls = "neq" -> TokNeq(lx)
          [] cls = "lt" -> TokLt(lx)
          [] cls = "gt" -> TokGt(lx)
          [] cls = "string" -> TokString(lx)
          [] cls = "single" -> TokSingle(lx)
          [] cls = "illegal" -> TokIllegal(lx)

\* n iterations of the loop of tokenize, or fewer when it returns before
RECURSIVE TokLoop(_, _)
TokLoop(lx, n) ==
    IF lx.st # "run" \/ n = 0 THEN lx
    ELSE IF n = 1 THEN TokStep(lx)
    ELSE TokLoop(TokLoop(lx, n \div 2), n - (n \div 2))

\* Lexer(file_name, text).tokenize(): every iteration reads a character or
\* is the last
tokenize(text) == TokLoop(LexerNew(text), Len(text) + 1)

\* ------------------------------------------------------------------------
\* NODES (src/basics.py 414-545)
\* ------------------------------------------------------------------------
NoNode == [t |-> "None"]

NoToken == [type |-> "None"]

NumberNode(token) ==
    [t |-> "NumberNode", token |-> token,
     start_pos |-> token.start_pos, end_pos |-> token.end_pos]

StringNode(token) ==
    [t |-> "StringNode", token |-> token,
     start_pos |-> token.start_pos, end_pos |-> token.end_pos]

BinOpNode(left_node, operator, right_node) ==
    [t |-> "BinOpNode", left_node |-> left_node, operator |-> operator,
     right_node |-> right_node,
     start_pos |-> left_node.start_pos, end_pos |-> right_node.end_pos]

UnaryOpNode(operator, node) ==
    [t |-> "UnaryOpNode", operator |-> operator, node |-> node,
     start_pos |-> operator.start_pos, end_pos |-> node.end_pos]

VarAssignmentNode(var_name_token, value_node) ==
    [t |-> "VarAssignmentNode", var_name_token |-> var_name_token,
     value_node |-> value_node,
     start_pos |-> var_name_token.start_pos, end_pos |-> var_name_token.end_pos]

VarAccessNode(var_name_token) ==
    [t |-> "VarAccessNode", var_name_token |-> var_name_token,
     start_pos |-> var_name_token.start_pos, end_pos |-> var_name_token.end_pos]

\* cases is a sequence of <<condition, body, should_return_null>>; else_case
\* is <<>> for None, or <<body, should_return_null>>
IfNode(cases, else_case) ==
    [t |-> "IfNode", cases |-> cases, else_case |-> else_case,
     start_pos |-> cases[1][1].start_pos,
     end_pos |-> IF Len(else_case) > 0 THEN else_case[1].end_pos
                 ELSE cases[Len(cases)][1].end_pos]

\* step_value_node is NoNode when the loop has no step
ForNode(var_name_token, start_value_node, end_value_node, body_node, step_value_node, should_return_null) ==
    [t |-> "ForNode", var_name_token |-> var_name_token,
     start_value_node |-> start_value_node, end_value_node |-> end_value_node,
     body_node |-> body_node, step_value_node |-> step_value_node,
     should_return_null |-> should_return_null,
     start_pos |-> var_name_token.start_pos, end_pos |-> body_node.end_pos]

WhileNode(condition_node, body_node, should_return_null) ==
    [t |-> "WhileNode", condition_node |-> condition_node,
     body_node |-> body_node, should_return_null |-> should_return_null,
     start_pos |-> condition_node.start_pos, end_pos |-> body_node.end_pos]

\* func_name_token is NoToken for an anonymous function
FuncDefinitionNode(func_name_token, arg_name_tokens, body_node, should_return_null) ==
    [t |-> "FuncDefinitionNode", func_name_token |-> func_name_token,
     arg_name_tokens |-> arg_name_tokens, body_node |-> body_node,
     should_return_null |-> should_return_null,
     start_pos |-> IF func_name_token.type # "None"
                   THEN func_name_token.start_pos
                   ELSE IF Len(arg_name_tokens) > 0
                        THEN arg_name_tokens[1].start_pos
                        ELSE body_node.start_pos,
     end_pos |-> body_node.end_pos]

FuncCallNode(node_to_call, arg_nodes) ==
    [t |-> "FuncCallNode", node_to_call |-> node_to_call,
     arg_nodes |-> arg_nodes,
     start_pos |-> node_to_call.start_pos,
     end_pos |-> IF Len(arg_nodes) > 0 THEN arg_nodes[Len(arg_nodes)].end_pos
                 ELSE node_to_call.end_pos]

ListNode(element_nodes, start_pos, end_pos) ==
    [t |-> "ListNode", element_nodes |-> element_nodes,
     start_pos |-> start_pos, end_pos |-> end_pos]

\* the pair (cases, else_case) that the if productions hand to each other
CasesNode(cases, else_case) ==
    [t |-> "Cases", cases |-> cases, else_case |-> else_case]


\* ------------------------------------------------------------------------
\* PARSE RESULT (src/basics.py 552-584)
\* ------------------------------------------------------------------------
ParseResult ==
    [error |-> NoErr, node |-> NoNode, advance_count |-> 0,
     last_registered_advance_count |-> 0, to_reverse_count |-> 0]

register_advancement(r) ==
    [r EXCEPT !.last_registered_advance_count = 1, !.advance_count = @ + 1]

\* register returns res.node, which the caller reads from res
register(r, res) ==
    [r EXCEPT !.last_registered_advance_count = res.advance_count,
              !.advance_count = @ + res.advance_count,
              !.error = IF IsErr(res.error) THEN res.error ELSE @]

try_register(r, res) ==
    IF IsErr(res.error)
    THEN [r EXCEPT !.to_reverse_count = res.last_registered_advance_count]
    ELSE register(r, res)

success(r, node) == [r EXCEPT !.node = node]

failure(r, error) ==
    IF ~IsErr(r.error) \/ r.last_registered_advance_count = 0
    THEN [r EXCEPT !.error = error]
    ELSE r

SyntaxErrorAt(token, message) ==
    InvalidSyntaxError(token.start_pos, token.end_pos, <<message>>)

MSG_EXPR == "Expected 'var', 'if', 'for', 'while', 'func', int, float, identifier, '+', '-', '(', '[', or 'not'"

\* the operator sets handed to _bin_op: token types, and (type, value) pairs
OpsOf(types, words) == [types |-> types, words |-> words]

InOps(token, ops) ==
    \/ token.type \in ops.types
    \/ /\ token.type = "KEYWORD"
       /\ token.value.s \in ops.words

\* ------------------------------------------------------------------------
\* PARSER (src/basics.py 591-1268)
\* The Parser is [tokens, token_index, curr_token] together with the stack
\* of the productions that are running: a frame is [fn, pc, ...locals], pc
\* the point the production has reached (0 at its first line, k after its
\* k-th call of another production).  ret is the ParseResult the production
\* that returned last handed back, exc the exception that was raised.  One
\* step runs the production on top of the stack up to its next call or to
\* its return.
\* ------------------------------------------------------------------------
TokenAt(tokens, i, curr_token) ==
    IF i >= 0 /\ i < Len(tokens) THEN tokens[i + 1] ELSE curr_token

\* Parser.advance (src/basics.py 599-605)
advance(M) ==
    [M EXCEPT !.token_index = @ + 1,
              !.curr_token = TokenAt(M.tokens, M.token_index + 1, @)]

\* Parser.reverse (src/basics.py 607-613)
reverse(M, amount) ==
    [M EXCEPT !.token_index = @ - amount,
              !.curr_token = TokenAt(M.tokens, M.token_index - amount, @)]

\* Parser.__init__ (src/basics.py 592-597)
Parser(tokens) ==
    advance([tokens |-> tokens, token_index |-> -1, curr_token |-> NoToken,
             stack |-> <<>>, ret |-> ParseResult, exc |-> ""])

Frame(fn) == [fn |-> fn, pc |-> 0]

BinOpFrame(left_func, ops, right_func) ==
    [fn |-> "_bin_op", pc |-> 0, left_func |-> left_func, ops |-> ops,
     right_func |-> right_func]

CasesFrame(case_keyword) ==
    [fn |-> "_if_expr_cases", pc |-> 0, case_keyword |-> case_keyword]

\* the running production becomes f and calls the production of frame g
Call(M, f, g) ==
    [M EXCEPT !.stack = Append([@ EXCEPT ![Len(@)] = f], g)]

\* "return self.g()": the running production is replaced by g
TailCall(M, g) == [M EXCEPT !.stack = [@ EXCEPT ![Len(@)] = g]]

\* the running production returns r to its caller
Return(M, r) ==
    [M EXCEPT !.stack = SubSeq(@, 1, Len(@) - 1), !.ret = r]

Raise(M, exc) == [M EXCEPT !.exc = exc]

\* "while self.curr_token.type == TT_NEWLINE: register_advancement; advance"
\* with its counter; returns [M, r, newline_count]
RECURSIVE SkipNewlines(_, _, _)
SkipNewlines(M, r, newline_count) ==
    IF M.curr_token.type = "NEWLINE"
    THEN SkipNewlines(advance(M), register_advancement(r), newline_count + 1)
    ELSE [M |-> M, r |-> r, newline_count |-> newline_count]

\* the loop "while self.curr_token.type == TT_COMMA" of _list_expr and the
\* closing bracket (src/basics.py 643-658)
ListLoop(M, f, r, element_nodes) ==
    IF M.curr_token.type = "COMMA"
    THEN Call(advance(M),
              [f EXCEPT !.pc = 2, !.parse_result = register_advancement(r),
                        !.element_nodes = element_nodes],
              Frame("_expr"))
    ELSE IF M.curr_token.type # "RSQUARE"
    THEN Return(M, failure(r, SyntaxErrorAt(M.curr_token, "Expected ',' or ']'")))
    ELSE LET M1 == advance(M)
         IN  Return(M1, success(register_advancement(r),
                                ListNode(element_nodes, f.start_pos,
                                         M1.curr_token.end_pos)))

_list_expr(M, f) ==
    CASE f.pc = 0 ->
           LET start_pos == M.curr_token.start_pos
               M1 == advance(M)
               r1 == register_advancement(ParseResult)
               M2 == advance(M1)
           IN  IF M.curr_token.type # "LSQUARE"
               THEN Return(M, failure(ParseResult,
                                      SyntaxErrorAt(M.curr_token, "Expected '['")))
               ELSE IF M1.curr_token.type = "RSQUARE"
               THEN Return(M2, success(register_advancement(r1),
                                       ListNode(<<>>, start_pos,
                                                M2.curr_token.end_pos)))
               ELSE Call(M1, [fn |-> "_list_expr", pc |-> 1, parse_result |-> r1,
                              start_pos |-> start_pos, element_nodes |-> <<>>],
                         Frame("_expr"))
      [] f.pc = 1 ->
           LET r == register(f.parse_result, M.ret)
           IN  IF IsErr(r.error)
               THEN Return(M, failure(r, SyntaxErrorAt(M.curr_token,
                        "Expected 'var', 'if', 'for', 'while', 'func', int, float, identifier, '+', '-', '(', '[', ']', or 'not'")))
               ELSE ListLoop(M, f, r, Append(f.element_nodes, M.ret.node))
      [] f.pc = 2 ->
           LET r == register(f.parse_result, M.ret)
           IN  IF IsErr(r.error) THEN Return(M, r)
               ELSE ListLoop(M, f, r, Append(f.element_nodes, M.ret.node))

_if_expr(M, f) ==
    CASE f.pc = 0 ->
           Call(M, [fn |-> "_if_expr", pc |-> 1, parse_result |-> ParseResult],
                CasesFrame(<<"i","f">>))
      [] f.pc = 1 ->
           LET r == register(f.parse_result, M.ret)
           IN  IF IsErr(r.error) THEN Return(M, r)
               ELSE Return(M, success(r, IfNode(M.ret.node.cases,
                                                M.ret.node.else_case)))

\* _elif_expr (src/basics.py 671-672) is _if_expr_cases('elif')

\* the node of the result is else_case: <<>> for None, or
\* <<body, should_return_null>>
_else_expr(M, f) ==
    CASE f.pc = 0 ->
           LET M1 == advance(M)
               r1 == register_advancement(ParseResult)
           IN  IF ~Match(M.curr_token, "KEYWORD", <<"e","l","s","e">>)
               THEN Return(M, success(ParseResult, <<>>))
               ELSE IF M1.curr_token.type = "NEWLINE"
               THEN Call(advance(M1),
                         [fn |-> "_else_expr", pc |-> 1,
                          parse_result |-> register_advancement(r1)],
                         Frame("_statement"))
               ELSE Call(M1, [fn |-> "_else_expr", pc |-> 2, parse_result |-> r1],
                         Frame("_expr"))
      [] f.pc = 1 ->
           LET r == register(f.parse_result, M.ret)
           IN  IF IsErr(r.error) THEN Return(M, r)
               ELSE IF Match(M.curr_token, "KEYWORD", <<"e","n","d">>)
               THEN Return(advance(M), success(register_advancement(r),
                                               <<M.ret.node, TRUE>>))
               ELSE Return(M, failure(r, SyntaxErrorAt(M.curr_token,
                                            "Expected keyword 'end'")))
      [] f.pc = 2 ->
           LET r == register(f.parse_result, M.ret)
           IN  IF IsErr(r.error) THEN Return(M, r)
               ELSE Return(M, success(r, <<M.ret.node, FALSE>>))

_elif_or_else_expr(M, f) ==
    CASE f.pc = 0 ->
           IF Match(M.curr_token, "KEYWORD", <<"e","l","i","f">>)
           THEN Call(M, [fn |-> "_elif_or_else_expr", pc |-> 1,
                         parse_result |-> ParseResult],
                     CasesFrame(<<"e","l","i","f">>))
           ELSE Call(M, [fn |-> "_elif_or_else_expr", pc |-> 2,
                         parse_result |-> ParseResult],
                     Frame("_else_expr"))
      [] f.pc = 1 ->
           LET r == register(f.parse_result, M.ret)
           IN  IF IsErr(r.error) THEN Return(M, r)
               ELSE Return(M, success(r, CasesNode(M.ret.node.cases,
                                                   M.ret.node.else_case)))
      [] f.pc = 2 ->
           LET r == register(f.parse_result, M.ret)
           IN  IF IsErr(r.error) THEN Return(M, r)
               ELSE Return(M, success(r, CasesNode(<<>>, M.ret.node)))

\* The (cases, else_case) pair of _elif_or_else_expr is unpacked into
\* new_cases and else_cases (lines 762, 772); the local else_case, the one
\* returned at line 775, keeps its initial None.
_if_expr_cases(M, f) ==
    CASE f.pc = 0 ->
           IF ~Match(M.curr_token, "KEYWORD", f.case_keyword)
           THEN Return(M, failure(ParseResult,
                    InvalidSyntaxError(M.curr_token.start_pos,
                                       M.curr_token.end_pos,
                        <<"Expected keyword '">> \o f.case_keyword \o <<"'">>)))
           ELSE Call(advance(M),
                     [fn |-> "_if_expr_cases", pc |-> 1,
                      case_keyword |-> f.case_keyword,
                      parse_result |-> register_advancement(ParseResult),
                      cases |-> <<>>, else_case |-> <<>>, condition |-> NoNode],
                     Frame("_expr"))
      [] f.pc = 1 ->
           LET r == register(f.parse_result, M.ret)
               M1 == advance(M)
               r1 == register_advancement(r)
           IN  IF IsErr(r.error) THEN Return(M, r)
               ELSE IF ~Match(M.curr_token, "KEYWORD", <<"t","h","e","n">>)
               THEN Return(M, failure(r, SyntaxErrorAt(M.curr_token,
                                            "Expected keyword 'then'")))
               ELSE IF M1.curr_token.type = "NEWLINE"
               THEN Call(advance(M1),
                         [f EXCEPT !.pc = 2, !.condition = M.ret.node,
                                   !.parse_result = register_advancement(r1)],
                         Frame("_statement"))
               ELSE Call(M1, [f EXCEPT !.pc = 3, !.condition = M.ret.node,
                                       !.parse_result = r1],
                         Frame("_expr"))
      [] f.pc = 2 ->
           LET r == register(f.parse_result, M.ret)
               cases == Append(f.cases, <<f.condition, M.ret.node, TRUE>>)
           IN  IF IsErr(r.error) THEN Return(M, r)
               ELSE IF Match(M.curr_token, "KEYWORD", <<"e","n","d">>)
               THEN Return(advance(M), success(register_advancement(r),
                                               CasesNode(cases, f.else_case)))
               ELSE Call(M, [f EXCEPT !.pc = 4, !.parse_result = r,
                                      !.cases = cases],
                         Frame("_elif_or_else_expr"))
      [] f.pc = 3 ->
           LET r == register(f.parse_result, M.ret)
               cases == Append(f.cases, <<f.condition, M.ret.node, FALSE>>)
           IN  IF IsErr(r.error) THEN Return(M, r)
               ELSE Call(M, [f EXCEPT !.pc = 4, !.parse_result = r,
                                      !.cases = cases],
                         Frame("_elif_or_else_expr"))
      [] f.pc = 4 ->
           LET r == register(f.parse_result, M.ret)
               new_cases == M.ret.node.cases
           IN  IF IsErr(r.error) THEN Return(M, r)
               ELSE Return(M, success(r, CasesNode(f.cases \o new_cases,
                                                   f.else_case)))

\* "if not self.curr_token.match(TT_KEYWORD, 'do')" and the body of a for
\* loop (src/basics.py 825-853)
ForBody(M, f, r, step_value) ==
    LET M1 == advance(M)
        r1 == register_advancement(r)
    IN  IF ~Match(M.curr_token, "KEYWORD", <<"d","o">>)
        THEN Return(M, failure(r, SyntaxErrorAt(M.curr_token,
                                     "Expected keyword 'do'")))
        ELSE IF M1.curr_token.type = "NEWLINE"
        THEN Call(advance(M1),
                  [f EXCEPT !.pc = 4, !.step_value = step_value,
                            !.parse_result = register_advancement(r1)],
                  Frame("_statement"))
        ELSE Call(M1, [f EXCEPT !.pc = 5, !.step_value = step_value,
                                !.parse_result = r1],
                  Frame("_expr"))

_for_expr(M, f) ==
    CASE f.pc = 0 ->
           LET M1 == advance(M)
               var_name == M1.curr_token
               M2 == advance(M1)
               r3 == register_advancement(register_advancement(
                         register_advancement(ParseResult)))
           IN  IF ~Match(M.curr_token, "KEYWORD", <<"f","o","r">>)
               THEN Return(M, failure(ParseResult,
                        SyntaxErrorAt(M.curr_token, "Expected keyword 'for'")))
               ELSE IF M1.curr_token.type # "IDENTIFIER"
               THEN Return(M1, failure(register_advancement(ParseResult),
                        SyntaxErrorAt(M1.curr_token, "Expected identifier")))
               ELSE IF M2.curr_token.type # "EQ"
               THEN Return(M2, failure(register_advancement(
                                           register_advancement(ParseResult)),
                        SyntaxErrorAt(M2.curr_token, "Expected '='")))
               ELSE Call(advance(M2),
                         [fn |-> "_for_expr", pc |-> 1, parse_result |-> r3,
                          var_name |-> var_name, start_value |-> NoNode,
                          end_value |-> NoNode, step_value |-> NoNode],
                         Frame("_expr"))
      [] f.pc = 1 ->
           LET r == register(f.parse_result, M.ret)
           IN  IF IsErr(r.error) THEN Return(M, r)
               ELSE IF ~Match(M.curr_token, "KEYWORD", <<"t","o">>)
               THEN Return(M, failure(r, SyntaxErrorAt(M.curr_token,
                                            "Expected keyword 'to'")))
               ELSE Call(advance(M),
                         [f EXCEPT !.pc = 2, !.start_value = M.ret.node,
                                   !.parse_result = register_advancement(r)],
                         Frame("_expr"))
      [] f.pc = 2 ->
           LET r == register(f.parse_result, M.ret)
               f1 == [f EXCEPT !.end_value = M.ret.node]
           IN  IF IsErr(r.error) THEN Return(M, r)
               ELSE IF Match(M.curr_token, "KEYWORD", <<"s","t","e","p">>)
               THEN Call(advance(M),
                         [f1 EXCEPT !.pc = 3,
                                    !.parse_result = register_advancement(r)],
                         Frame("_expr"))
               ELSE ForBody(M, f1, r, NoNode)
      [] f.pc = 3 ->
           LET r == register(f.parse_result, M.ret)
           IN  IF IsErr(r.error) THEN Return(M, r)
               ELSE ForBody(M, f, r, M.ret.node)
      [] f.pc = 4 ->
           LET r == register(f.parse_result, M.ret)
           IN  IF IsErr(r.error) THEN Return(M, r)
               ELSE IF ~Match(M.curr_token, "KEYWORD", <<"e","n","d">>)
               THEN Return(M, failure(r, SyntaxErrorAt(M.curr_token,
                                            "Expected keyword 'end'")))
               ELSE Return(advance(M),
                           success(register_advancement(r),
                                   ForNode(f.var_name, f.start_value,
                                           f.end_value, M.ret.node,
                                           f.step_value, TRUE)))
      [] f.pc = 5 ->
           LET r == register(f.parse_result, M.ret)
           IN  IF IsErr(r.error) THEN Return(M, r)
               ELSE Return(M, success(r, ForNode(f.var_name, f.start_value,
                                                 f.end_value, M.ret.node,
                                                 f.step_value, FALSE)))

_while_expr(M, f) ==
    CASE f.pc = 0 ->
           IF ~Match(M.curr_token, "KEYWORD", <<"w","h","i","l","e">>)
           THEN Return(M, failure(ParseResult,
                    SyntaxErrorAt(M.curr_token, "Expected keyword 'while'")))
           ELSE Call(advance(M),
                     [fn |-> "_while_expr", pc |-> 1,
                      parse_result |-> register_advancement(ParseResult),
                      condition |-> NoNode],
                     Frame("_expr"))
      [] f.pc = 1 ->
           LET r == register(f.parse_result, M.ret)
               M1 == advance(M)
               r1 == register_advancement(r)
           IN  IF IsErr(r.error) THEN Return(M, r)
               ELSE IF ~Match(M.curr_token, "KEYWORD", <<"d","o">>)
               THEN Return(M, failure(r, SyntaxErrorAt(M.curr_token,
                                            "Expected keyword 'do'")))
               ELSE IF M1.curr_token.type = "NEWLINE"
               THEN Call(advance(M1),
                         [f EXCEPT !.pc = 2, !.condition = M.ret.node,
                                   !.parse_result = register_advancement(r1)],
                         Frame("_statement"))
               ELSE Call(M1, [f EXCEPT !.pc = 3, !.condition = M.ret.node,
                                       !.parse_result = r1],
                         Frame("_expr"))
      [] f.pc = 2 ->
           LET r == register(f.parse_result, M.ret)
           IN  IF IsErr(r.error) THEN Return(M, r)
               ELSE IF ~Match(M.curr_token, "KEYWORD", <<"e","n","d">>)
               THEN Return(M, failure(r, SyntaxErrorAt(M.curr_token,
                                            "Expected keyword 'end'")))
               ELSE Return(advance(M),
                           success(register_advancement(r),
                                   WhileNode(f.condition, M.ret.node, TRUE)))
      [] f.pc = 3 ->
           LET r == register(f.parse_result, M.ret)
           IN  IF IsErr(r.error) THEN Return(M, r)
               ELSE Return(M, success(r, WhileNode(f.condition, M.ret.node,
                                                   FALSE)))

\* the loop "while self.curr_token.type == TT_COMMA" of _func_def
\* (src/basics.py 937-948); returns [M, r, arg_name_tokens, ok]
RECURSIVE ArgNameLoop(_, _, _)
ArgNameLoop(M, r, arg_name_tokens) ==
    IF M.curr_token.type = "COMMA"
    THEN LET M1 == advance(M)
             r1 == register_advancement(r)
         IN  IF M1.curr_token.type # "IDENTIFIER"
             THEN [M |-> M1, arg_name_tokens |-> arg_name_tokens, ok |-> FALSE,
                   r |-> failure(r1, SyntaxErrorAt(M1.curr_token,
                                                   "Expected identifier"))]
             ELSE ArgNameLoop(advance(M1), register_advancement(r1),
                              Append(arg_name_tokens, M1.curr_token))
    ELSE [M |-> M, r |-> r, arg_name_tokens |-> arg_name_tokens, ok |-> TRUE]

\* _func_def from the '(' of the argument list (src/basics.py 928-981)
FuncDefArgs(M, r, func_name_token) ==
    LET M1 == advance(M)
        r1 == register_advancement(r)
        has_args == M1.curr_token.type = "IDENTIFIER"
        a == IF has_args
             THEN ArgNameLoop(advance(M1), register_advancement(r1),
                              <<M1.curr_token>>)
             ELSE [M |-> M1, r |-> r1, arg_name_tokens |-> <<>>, ok |-> TRUE]
        M2 == advance(a.M)
        r2 == register_advancement(a.r)
        f == [fn |-> "_func_def", pc |-> 0, parse_result |-> r2,
              func_name_token |-> func_name_token,
              arg_name_tokens |-> a.arg_name_tokens]
    IN  IF ~a.ok THEN Return(a.M, a.r)
        ELSE IF a.M.curr_token.type # "RPAREN"
        THEN Return(a.M, failure(a.r, SyntaxErrorAt(a.M.curr_token,
                        IF has_args THEN "Expected ',' or ')'"
                        ELSE "Expected identifier or ')'")))
        ELSE IF M2.curr_token.type = "ARROW"
        THEN Call(advance(M2),
                  [f EXCEPT !.pc = 1, !.parse_result = register_advancement(r2)],
                  Frame("_expr"))
        ELSE IF M2.curr_token.type # "NEWLINE"
        THEN Return(M2, failure(r2, SyntaxErrorAt(M2.curr_token,
                                       "Expected '->' or newline character")))
        ELSE Call(advance(M2),
                  [f EXCEPT !.pc = 2, !.parse_result = register_advancement(r2)],
                  Frame("_statement"))

\* In the block form line 992 reads body_expr, a local that only the arrow
\* form assigns: UnboundLocalError.
_func_def(M, f) ==
    CASE f.pc = 0 ->
           LET M1 == advance(M)
               r1 == register_advancement(ParseResult)
           IN  IF ~Match(M.curr_token, "KEYWORD", <<"f","u","n","c">>)
               THEN Return(M, failure(ParseResult,
                        SyntaxErrorAt(M.curr_token, "Expected keyword 'func'")))
               ELSE IF M1.curr_token.type = "IDENTIFIER"
               THEN LET M2 == advance(M1)
                        r2 == register_advancement(r1)
                    IN  IF M2.curr_token.type # "LPAREN"
                        THEN Return(M2, failure(r2,
                                 SyntaxErrorAt(M2.curr_token, "Expected '('")))
                        ELSE FuncDefArgs(M2, r2, M1.curr_token)
               ELSE IF M1.curr_token.type # "LPAREN"
               THEN Return(M1, failure(r1, SyntaxErrorAt(M1.curr_token,
                                              "Expected identifier or '('")))
               ELSE FuncDefArgs(M1, r1, NoToken)
      [] f.pc = 1 ->
           LET r == register(f.parse_result, M.ret)
           IN  IF IsErr(r.error) THEN Return(M, r)
               ELSE Return(M, success(r,
                        FuncDefinitionNode(f.func_name_token, f.arg_name_tokens,
                                           M.ret.node, FALSE)))
      [] f.pc = 2 ->
           LET r == register(f.parse_result, M.ret)
           IN  IF IsErr(r.error) THEN Return(M, r)
               ELSE IF ~Match(M.curr_token, "KEYWORD", <<"e","n","d">>)
               THEN Return(M, failure(r, SyntaxErrorAt(M.curr_token,
                                            "Expected keyword 'end'")))
               ELSE Raise(advance(M), "UnboundLocalError")

_atom(M, f) ==
    CASE f.pc = 0 ->
           LET token == M.curr_token
               r1 == register_advancement(ParseResult)
               g == [fn |-> "_atom", pc |-> 2, parse_result |-> ParseResult,
                     token |-> token]
           IN  CASE token.type = "LPAREN" ->
                      Call(advance(M), [g EXCEPT !.pc = 1, !.parse_result = r1],
                           Frame("_expr"))
                 [] token.type \in {"INT", "FLOAT"} ->
                      Return(advance(M), success(r1, NumberNode(token)))
                 [] token.type = "STRING" ->
                      Return(advance(M), success(r1, StringNode(token)))
                 [] token.type = "IDENTIFIER" ->
                      Return(advance(M), success(r1, VarAccessNode(token)))
                 [] token.type = "LSQUARE" -> Call(M, g, Frame("_list_expr"))
                 [] Match(token, "KEYWORD", <<"i","f">>) -> Call(M, g, Frame("_if_expr"))
                 [] Match(token, "KEYWORD", <<"f","o","r">>) -> Call(M, g, Frame("_for_expr"))
                 [] Match(token, "KEYWORD", <<"w","h","i","l","e">>) ->
                      Call(M, g, Frame("_while_expr"))
                 [] Match(token, "KEYWORD", <<"f","u","n","c">>) -> Call(M, g, Frame("_func_def"))
                 [] OTHER ->
                      Return(M, failure(ParseResult, SyntaxErrorAt(token,
                          "Expected 'if', 'for', 'while', 'fun', int, float, identifier, '+', '-', '(', or '['")))
      [] f.pc = 1 ->
           LET r == register(f.parse_result, M.ret)
           IN  IF IsErr(r.error) THEN Return(M, r)
               ELSE IF M.curr_token.type = "RPAREN"
               THEN Return(advance(M), success(register_advancement(r),
                                               M.ret.node))
               ELSE Return(M, failure(r, SyntaxErrorAt(f.token, "Expected ')'")))
      [] f.pc = 2 ->
           LET r == register(f.parse_result, M.ret)
           IN  IF IsErr(r.error) THEN Return(M, r)
               ELSE Return(M, success(r, M.ret.node))

\* the loop "while self.curr_token.type == TT_COMMA" of _call and the
\* closing parenthesis (src/basics.py 1091-1106)
CallLoop(M, f, r, arg_nodes) ==
    IF M.curr_token.type = "COMMA"
    THEN Call(advance(M),
              [f EXCEPT !.pc = 3, !.parse_result = register_advancement(r),
                        !.arg_nodes = arg_nodes],
              Frame("_expr"))
    ELSE IF M.curr_token.type # "RPAREN"
    THEN Return(M, failure(r, SyntaxErrorAt(M.curr_token, "Expected ',' or ')'")))
    ELSE Return(advance(M), success(register_advancement(r),
                                    FuncCallNode(f.atom, arg_nodes)))

_call(M, f) ==
    CASE f.pc = 0 ->
           Call(M, [fn |-> "_call", pc |-> 1, parse_result |-> ParseResult,
                    atom |-> NoNode, arg_nodes |-> <<>>],
                Frame("_atom"))
      [] f.pc = 1 ->
           LET r == register(f.parse_result, M.ret)
               atom == M.ret.node
               M1 == advance(M)
               r1 == register_advancement(r)
           IN  IF IsErr(r.error) THEN Return(M, r)
               ELSE IF M.curr_token.type # "LPAREN"
               THEN Return(M, success(r, atom))
               ELSE IF M1.curr_token.type = "RPAREN"
               THEN Return(advance(M1), success(register_advancement(r1),
                                                FuncCallNode(atom, <<>>)))
               ELSE Call(M1, [f EXCEPT !.pc = 2, !.parse_result = r1,
                                       !.atom = atom],
                         Frame("_expr"))
      [] f.pc = 2 ->
           LET r == register(f.parse_result, M.ret)
           IN  IF IsErr(r.error)
               THEN Return(M, failure(r, SyntaxErrorAt(M.curr_token,
                        "Expected 'var', 'if', 'for', 'while', 'func', int, float, identifier, '+', '-', '(', ')', '[', or 'not'")))
               ELSE CallLoop(M, f, r, Append(f.arg_nodes, M.ret.node))
      [] f.pc = 3 ->
           LET r == register(f.parse_result, M.ret)
           IN  IF IsErr(r.error) THEN Return(M, r)
               ELSE CallLoop(M, f, r, Append(f.arg_nodes, M.ret.node))

\* _power taking a call, not a factor, to the right of ^
_power_LeftToRight(M, f) ==
    TailCall(M, BinOpFrame("_call", OpsOf({"POW"}, {}), "_call"))

_power(M, f) ==
    TailCall(M, BinOpFrame("_call", OpsOf({"POW"}, {}), "_factor"))

_factor(M, f) ==
    CASE f.pc = 0 ->
           LET token == M.curr_token
           IN  IF token.type \in {"PLUS", "MINUS"}
               THEN Call(advance(M),
                         [fn |-> "_factor", pc |-> 1, token |-> token,
                          parse_result |-> register_advancement(ParseResult)],
                         Frame("_factor"))
               ELSE TailCall(M, Frame("_power"))
      [] f.pc = 1 ->
           LET r == register(f.parse_result, M.ret)
           IN  IF IsErr(r.error) THEN Return(M, r)
               ELSE Return(M, success(r, UnaryOpNode(f.token, M.ret.node)))

_term(M, f) ==
    TailCall(M, BinOpFrame("_factor", OpsOf({"MUL", "DIV"}, {}), "_factor"))

_arith_expr(M, f) ==
    TailCall(M, BinOpFrame("_term", OpsOf({"PLUS", "MINUS"}, {}), "_term"))

_comp_expr(M, f) ==
    CASE f.pc = 0 ->
           IF Match(M.curr_token, "KEYWORD", <<"n","o","t">>)
           THEN Call(advance(M),
                     [fn |-> "_comp_expr", pc |-> 1, operator |-> M.curr_token,
                      parse_result |-> register_advancement(ParseResult)],
                     Frame("_comp_expr"))
           ELSE Call(M, [fn |-> "_comp_expr", pc |-> 2,
                         parse_result |-> ParseResult],
                     BinOpFrame("_arith_expr",
                                OpsOf({"EE", "NE", "LT", "LTE", "GT", "GTE"}, {}),
                                "_arith_expr"))
      [] f.pc = 1 ->
           LET r == register(f.parse_result, M.ret)
           IN  IF IsErr(r.error) THEN Return(M, r)
               ELSE Return(M, success(r, UnaryOpNode(f.operator, M.ret.node)))
      [] f.pc = 2 ->
           LET r == register(f.parse_result, M.ret)
           IN  IF IsErr(r.error)
               THEN Return(M, failure(r, SyntaxErrorAt(M.curr_token,
                        "Expected int, float, identifier, '+', '-', '(', '[', or 'not'")))
               ELSE Return(M, success(r, M.ret.node))

_expr(M, f) ==
    CASE f.pc = 0 ->
           LET M1 == advance(M)
               var_name == M1.curr_token
               M2 == advance(M1)
               r1 == register_advancement(ParseResult)
               r2 == register_advancement(r1)
           IN  IF ~Match(M.curr_token, "KEYWORD", <<"v","a","r">>)
               THEN Call(M, [fn |-> "_expr", pc |-> 2,
                             parse_result |-> ParseResult],
                         BinOpFrame("_comp_expr", OpsOf({}, {<<"a","n","d">>, <<"o","r">>}),
                                    "_comp_expr"))
               ELSE IF M1.curr_token.type # "IDENTIFIER"
               THEN Return(M1, failure(r1, SyntaxErrorAt(M1.curr_token,
                                              "Expected identifier")))
               ELSE IF M2.curr_token.type # "EQ"
               THEN Return(M2, failure(r2, SyntaxErrorAt(M2.curr_token,
                                              "Expected '='")))
               ELSE Call(advance(M2),
                         [fn |-> "_expr", pc |-> 1, var_name |-> var_name,
                          parse_result |-> register_advancement(r2)],
                         Frame("_expr"))
      [] f.pc = 1 ->
           LET r == register(f.parse_result, M.ret)
           IN  IF IsErr(r.error) THEN Return(M, r)
               ELSE Return(M, success(r, VarAssignmentNode(f.var_name,
                                                           M.ret.node)))
      [] f.pc = 2 ->
           LET r == register(f.parse_result, M.ret)
           IN  IF IsErr(r.error)
               THEN Return(M, failure(r, SyntaxErrorAt(M.curr_token, MSG_EXPR)))
               ELSE Return(M, success(r, M.ret.node))

\* one pass of the loop "while True" of _statement (src/basics.py 1215-1232)
StatementLoop(M, f, r, statements, more_statements) ==
    LET n == SkipNewlines(M, r, 0)
        more == IF n.newline_count = 0 THEN FALSE ELSE more_statements
    IN  IF ~more
        THEN Return(n.M, success(n.r, ListNode(statements, f.start_pos,
                                               n.M.curr_token.start_pos)))
        ELSE Call(n.M, [f EXCEPT !.pc = 2, !.parse_result = n.r,
                                 !.statements = statements],
                  Frame("_expr"))

_statement(M, f) ==
    CASE f.pc = 0 ->
           LET n == SkipNewlines(M, ParseResult, 0)
           IN  Call(n.M, [fn |-> "_statement", pc |-> 1, parse_result |-> n.r,
                          statements |-> <<>>,
                          start_pos |-> M.curr_token.start_pos],
                    Frame("_expr"))
      [] f.pc = 1 ->
           LET r == register(f.parse_result, M.ret)
           IN  IF IsErr(r.error) THEN Return(M, r)
               ELSE StatementLoop(M, f, r, <<M.ret.node>>, TRUE)
      [] f.pc = 2 ->
           LET r == try_register(f.parse_result, M.ret)
           IN  IF IsErr(M.ret.error)
               THEN StatementLoop(reverse(M, r.to_reverse_count), f, r,
                                  f.statements, FALSE)
               ELSE StatementLoop(M, f, r, Append(f.statements, M.ret.node),
                                  TRUE)

\* the loop of _bin_op (src/basics.py 1244-1255)
BinOpLoop(M, f, r, left) ==
    IF InOps(M.curr_token, f.ops)
    THEN Call(advance(M),
              [fn |-> "_bin_op", pc |-> 2, left_func |-> f.left_func,
               ops |-> f.ops, right_func |-> f.right_func,
               parse_result |-> register_advancement(r), left |-> left,
               operator |-> M.curr_token],
              Frame(f.right_func))
    ELSE Return(M, success(r, left))

_bin_op(M, f) ==
    CASE f.pc = 0 ->
           Call(M, [fn |-> "_bin_op", pc |-> 1, left_func |-> f.left_func,
                    ops |-> f.ops, right_func |-> f.right_func,
                    parse_result |-> ParseResult],
                Frame(f.left_func))
      [] f.pc = 1 ->
           LET r == register(f.parse_result, M.ret)
           IN  IF IsErr(r.error) THEN Return(M, r)
               ELSE BinOpLoop(M, f, r, M.ret.node)
      [] f.pc = 2 ->
           LET r == register(f.parse_result, M.ret)
           IN  IF IsErr(r.error) THEN Return(M, r)
               ELSE BinOpLoop(M, f, r, BinOpNode(f.left, f.operator, M.ret.node))

\* one step of the production on top of the stack
ParserStep(M) ==
    LET f == M.stack[Len(M.stack)]
    IN  CASE f.fn = "_statement" -> _statement(M, f)
          [] f.fn = "_expr" -> _expr(M, f)
          [] f.fn = "_bin_op" -> _bin_op(M, f)
          [] f.fn = "_comp_expr" -> _comp_expr(M, f)
          [] f.fn = "_arith_expr" -> _arith_expr(M, f)
          [] f.fn = "_term" -> _term(M, f)
          [] f.fn = "_factor" -> _factor(M, f)
          [] f.fn = "_power" -> _power(M, f)
          [] f.fn = "_call" -> _call(M, f)
          [] f.fn = "_atom" -> _atom(M, f)
          [] f.fn = "_list_expr" -> _list_expr(M, f)
          [] f.fn = "_if_expr" -> _if_expr(M, f)
          [] f.fn = "_if_expr_cases" -> _if_expr_cases(M, f)
          [] f.fn = "_elif_or_else_expr" -> _elif_or_else_expr(M, f)
          [] f.fn = "_else_expr" -> _else_expr(M, f)
          [] f.fn = "_for_expr" -> _for_expr(M, f)
          [] f.fn = "_while_expr" -> _while_expr(M, f)
          [] f.fn = "_func_def" -> _func_def(M, f)

ParserDone(M) == M.exc # "" \/ Len(M.stack) = 0

\* n steps of the parser, or fewer when it is done before
RECURSIVE ParserLoop(_, _)
ParserLoop(M, n) ==
    IF ParserDone(M) \/ n = 0 THEN M
    ELSE IF n = 1 THEN ParserStep(M)
    ELSE ParserLoop(ParserLoop(M, n \div 2), n - (n \div 2))

\* a production takes fewer steps than this for every token it reads
StepsPerToken == 64

\* Parser.parse (src/basics.py 1259-1268): the Parser after parse(), ret the
\* ParseResult that parse returns
parse(tokens) ==
    LET M0 == [Parser(tokens) EXCEPT !.stack = <<Frame("_statement")>>]
        M == ParserLoop(M0, StepsPerToken * (Len(tokens) + 1))
    IN  IF M.exc # "" THEN M
        ELSE IF Len(M.stack) > 0 THEN Raise(M, "OutOfFuel")
        ELSE IF ~IsErr(M.ret.error) /\ M.curr_token.type # "EOF"
        THEN [M EXCEPT !.ret = failure(@, SyntaxErrorAt(M.curr_token,
                "Expected '+', '-', '*', '/', '^', '==', '!=', '<', '>', <=', '>=', 'and' or 'or'"))]
        ELSE M

\* ------------------------------------------------------------------------
\* VALUES (src/basics.py 1275-1773)
\* A Number holds the rational num/den in lowest terms; fl tells a Python
\* float from a Python int (den = 1).  A List holds the identity buf of its
\* elements list in the store.  context is the identity of a Context, 0 for
\* None.
\* ------------------------------------------------------------------------
NoneValue == [t |-> "None"]

Abs(n) == IF n < 0 THEN -n ELSE n

RECURSIVE GCD(_, _)
GCD(a, b) == IF b = 0 THEN a ELSE GCD(b, a % b)

\* Value.__init__: no position, no context
Number(num, den, fl) ==
    LET g == GCD(Abs(num), Abs(den))
        sgn == IF den < 0 THEN -1 ELSE 1
    IN  [t |-> "Number", num |-> (sgn * num) \div g, den |-> (sgn * den) \div g,
         fl |-> fl, start_pos |-> NoPos, end_pos |-> NoPos, context |-> 0]

IntNumber(n) == Number(n, 1, FALSE)

String(str) ==
    [t |-> "String", s |-> str, start_pos |-> NoPos, end_pos |-> NoPos,
     context |-> 0]

List(buf) ==
    [t |-> "List", buf |-> buf, start_pos |-> NoPos, end_pos |-> NoPos,
     context |-> 0]

\* def_context is a history field: the context in which the definition was
\* evaluated.  The program keeps no such field; set_context never writes it.
Function(func_name, arg_names, body_node, should_return_null, def_context) ==
    [t |-> "Function",
     func_name |-> IF Len(func_name) > 0 THEN func_name ELSE <<"<default_func>">>,
     arg_names |-> arg_names, body_node |-> body_node,
     should_return_null |-> should_return_null, def_context |-> def_context,
     start_pos |-> NoPos, end_pos |-> NoPos, context |-> 0]

BuiltInFunction(func_name) ==
    [t |-> "BuiltInFunction", func_name |-> func_name,
     start_pos |-> NoPos, end_pos |-> NoPos, context |-> 0]

set_pos(value, start_pos, end_pos) ==
    [value EXCEPT !.start_pos = start_pos, !.end_pos = end_pos]

set_context(value, context) == [value EXCEPT !.context = context]

\* Number.null, Number.false, Number.true, Number.math_PI (1449-1452); pi is
\* cut to five decimals
Number_null == IntNumber(0)

Number_false == IntNumber(0)

Number_true == IntNumber(1)

Number_math_PI == Number(314159, 100000, TRUE)

\* the result (value, error) of an operation of a Value, or the exception exc
OpValue(value) == [value |-> value, error |-> NoErr, exc |-> ""]

OpError(error) == [value |-> NoneValue, error |-> error, exc |-> ""]

OpExc(exc) == [value |-> NoneValue, error |-> NoErr, exc |-> exc]

\* Value.illegal_operation (1340-1342)
illegal_operation(self) ==
    RuntimeError_(self.start_pos, self.end_pos, <<"IllegalOperationError">>,
                  self.context)

\* Number and String reach it as Value.illegal_operation(self.start_pos,
\* self.end_pos): the receiver is then a Position (or None), and reading
\* its start_pos is an AttributeError.
IllegalOperationOnPosition == OpExc("AttributeError")

\* int(x) of a Python number: truncation toward zero
PyTrunc(num, den) == IF num >= 0 THEN num \div den ELSE -((-num) \div den)

RECURSIVE IntPow(_, _)
IntPow(b, e) == IF e = 0 THEN 1 ELSE b * IntPow(b, e - 1)

NumResult(self, num, den, fl) ==
    OpValue(set_context(Number(num, den, fl), self.context))

BoolResult(self, b) == NumResult(self, IF b THEN 1 ELSE 0, 1, FALSE)

\* the binary operations of Number (1350-1430); op is the method name
NumberOp(op, self, other) ==
    IF other.t # "Number" THEN IllegalOperationOnPosition
    ELSE
    LET a == self.num
        b == self.den
        c == other.num
        d == other.den
        fl == self.fl \/ other.fl
    IN  CASE op = "add" -> NumResult(self, a * d + c * b, b * d, fl)
          [] op = "subtract" -> NumResult(self, a * d - c * b, b * d, fl)
          [] op = "multiply" -> NumResult(self, a * c, b * d, fl)
          [] op = "divide_by" ->
               IF c = 0
               THEN OpError(RuntimeError_(other.start_pos, other.end_pos,
                                          <<"Division by zero">>, self.context))
               ELSE NumResult(self, a * d, b * c, TRUE)
          [] op = "power" ->
               \* exponents are whole numbers in the programs of this model
               IF c >= 0 THEN NumResult(self, IntPow(a, c), IntPow(b, c), fl)
               ELSE IF a = 0 THEN OpExc("ZeroDivisionError")
               ELSE NumResult(self, IntPow(b, -c), IntPow(a, -c), TRUE)
          [] op = "eq" -> BoolResult(self, a * d = c * b)
          [] op = "neq" -> BoolResult(self, a * d # c * b)
          [] op = "lt" -> BoolResult(self, a * d < c * b)
          [] op = "lte" -> BoolResult(self, a * d <= c * b)
          [] op = "gt" -> BoolResult(self, a * d > c * b)
          [] op = "gte" -> BoolResult(self, a * d >= c * b)
          \* int(self.value and other.value)
          [] op = "and_" -> IF a = 0 THEN NumResult(self, 0, 1, FALSE)
                            ELSE NumResult(self, PyTrunc(c, d), 1, FALSE)
          \* int(self.value or other.value)
          [] op = "or_" -> IF a # 0 THEN NumResult(self, PyTrunc(a, b), 1, FALSE)
                           ELSE NumResult(self, PyTrunc(c, d), 1, FALSE)

RECURSIVE Repeat(_, _)
Repeat(str, n) == IF n <= 0 THEN <<>> ELSE str \o Repeat(str, n - 1)

\* the binary operations of String (1460-1470); the others are Value's
StringOp(op, self, other) ==
    CASE op = "add" ->
           IF other.t = "String"
           THEN OpValue(set_context(String(self.s \o other.s), self.context))
           ELSE IllegalOperationOnPosition
      [] op = "multiply" ->
           IF other.t = "Number"
           THEN OpValue(set_context(
                    String(Repeat(self.s, PyTrunc(other.num, other.den))),
                    self.context))
           ELSE IllegalOperationOnPosition
      [] OTHER -> OpError(illegal_operation(self))

\* list.pop(i) and list[i] of Python take an int index, negative ones
\* counting from the end; anything else raises, and the bare except of the
\* callers turns that into their Runtime error
PyIndexOk(elements, index) ==
    /\ ~index.fl
    /\ index.num >= -Len(elements)
    /\ index.num < Len(elements)

\* an index that counts from the end of the list
PyIndex_FromEnd(elements, index) ==
    IF index.num >= 0 THEN Len(elements) - index.num ELSE 0 - index.num

PyIndex(elements, index) ==
    IF index.num >= 0 THEN index.num + 1 ELSE Len(elements) + index.num + 1

RemoveAt(elements, i) ==
    SubSeq(elements, 1, i - 1) \o SubSeq(elements, i + 1, Len(elements))

\* the binary operations of List (1727-1762) on the store bufs of elements
\* lists; the result is [value, error, exc, bufs].  List.copy shares the
\* elements list.
ListOpResult(r, bufs) ==
    [value |-> r.value, error |-> r.error, exc |-> r.exc, bufs |-> bufs]

ListOp(op, self, other, bufs) ==
    LET elements == bufs[self.buf]
        new_list == self
    IN  CASE op = "add" ->
               ListOpResult(OpValue(new_list),
                            [bufs EXCEPT ![self.buf] = Append(@, other)])
          [] op = "subtract" ->
               IF other.t # "Number"
               THEN ListOpResult(OpError(illegal_operation(self)), bufs)
               ELSE IF PyIndexOk(elements, other)
               THEN ListOpResult(OpValue(new_list),
                        [bufs EXCEPT ![self.buf] =
                            RemoveAt(@, PyIndex(elements, other))])
               ELSE ListOpResult(OpError(RuntimeError_(other.start_pos, other.end_pos,
                        <<"Element at this index could not be removed from list because index is out of bounds">>,
                        self.context)), bufs)
          [] op = "multiply" ->
               IF other.t # "List"
               THEN ListOpResult(OpError(illegal_operation(self)), bufs)
               ELSE ListOpResult(OpValue(new_list),
                        [bufs EXCEPT ![self.buf] = @ \o bufs[other.buf]])
          [] op = "divide_by" ->
               IF other.t # "Number"
               THEN ListOpResult(OpError(illegal_operation(self)), bufs)
               ELSE IF PyIndexOk(elements, other)
               THEN ListOpResult(OpValue(elements[PyIndex(elements, other)]), bufs)
               ELSE ListOpResult(OpError(RuntimeError_(other.start_pos, other.end_pos,
                        <<"Element at this index could not be retrieved from list because index is out of bounds">>,
                        self.context)), bufs)
          [] OTHER -> ListOpResult(OpError(illegal_operation(self)), bufs)

\* the dispatch with a Number.divide_by that does not look for a zero divisor
BinaryOp_NoZeroTest(op, left, right, bufs) ==
    IF left.t = "Number" /\ right.t = "Number" /\ op = "divide_by" /\ right.num = 0
    THEN ListOpResult(NumResult(left, 0, 1, TRUE), bufs)
    ELSE CASE left.t = "Number" -> ListOpResult(NumberOp(op, left, right), bufs)
           [] left.t = "String" -> ListOpResult(StringOp(op, left, right), bufs)
           [] left.t = "List" -> ListOp(op, left, right, bufs)
           [] OTHER -> ListOpResult(OpError(illegal_operation(left)), bufs)

\* left.<op>(right) as _visit_BinOpNode dispatches it
BinaryOp(op, left, right, bufs) ==
    CASE left.t = "Number" -> ListOpResult(NumberOp(op, left, right), bufs)
      [] left.t = "String" -> ListOpResult(StringOp(op, left, right), bufs)
      [] left.t = "List" -> ListOp(op, left, right, bufs)
      [] OTHER -> ListOpResult(OpError(illegal_operation(left)), bufs)

\* Value.is_true and its overrides (1337, 1436, 1472)
is_true(value) ==
    CASE value.t = "Number" -> value.num # 0
      [] value.t = "String" -> Len(value.s) > 0
      [] OTHER -> FALSE

\* ------------------------------------------------------------------------
\* CONTEXT and SYMBOL TABLE (src/basics.py 1802-1831)
\* The store S of the interpreter is [tabs, ctxs, bufs, log, calls, fuel]:
\* tabs the SymbolTable objects, ctxs the Context objects, bufs the elements
\* lists of the List values, each indexed by identity.  log, calls and fuel
\* are history: what was visited, written and raised, in order; the
\* contexts made by calls; the loop iterations left to the run.
\* ------------------------------------------------------------------------
Context(display_name, parent, parent_entry_pos, symbol_table) ==
    [display_name |-> display_name, parent |-> parent,
     parent_entry_pos |-> parent_entry_pos, symbol_table |-> symbol_table]

EmptySymbols == [n \in {} |-> NoneValue]

SymbolTable(parent) == [symbols |-> EmptySymbols, parent |-> parent]

\* a lookup that takes a stored value that is not true for a missing one
SymbolTable_get_Truthy(tabs, table, var_name) ==
    LET symbols == tabs[table].symbols
    IN  IF var_name \in DOMAIN symbols /\ is_true(symbols[var_name])
        THEN [found |-> TRUE, value |-> symbols[var_name], exc |-> ""]
        ELSE IF tabs[table].parent # 0
        THEN [found |-> FALSE, value |-> NoneValue, exc |-> "TypeError"]
        ELSE [found |-> FALSE, value |-> NoneValue, exc |-> ""]

\* SymbolTable.get: on a miss in a frame that has a parent, line 1823 calls
\* self.parent.get(var_name, None), one argument more than get takes
SymbolTable_get(tabs, table, var_name) ==
    LET symbols == tabs[table].symbols
    IN  IF var_name \in DOMAIN symbols
        THEN [found |-> TRUE, value |-> symbols[var_name], exc |-> ""]
        ELSE IF tabs[table].parent # 0
        THEN [found |-> FALSE, value |-> NoneValue, exc |-> "TypeError"]
        ELSE [found |-> FALSE, value |-> NoneValue, exc |-> ""]

SymbolTable_set(tabs, table, var_name, value) ==
    [tabs EXCEPT ![table].symbols =
        [n \in (DOMAIN @) \cup {var_name} |-> IF n = var_name THEN value ELSE @[n]]]

LogEvent(S, ev, kind, idx, name) ==
    [S EXCEPT !.log = Append(@, [ev |-> ev, kind |-> kind, idx |-> idx,
                                  name |-> name])]

SetSymbol(S, table, var_name, value) ==
    LogEvent([S EXCEPT !.tabs = SymbolTable_set(@, table, var_name, value)],
             "set", "", table, var_name)

\* ------------------------------------------------------------------------
\* RUNTIME RESULT (src/basics.py 1780-1795)
\* What a visit or an execute hands back is [value, error, exc, S]: the
\* fields of its RuntimeResult, the exception that escaped it, the store it
\* left.
\* ------------------------------------------------------------------------
RTSuccess(value, S) == [value |-> value, error |-> NoErr, exc |-> "", S |-> S]

\* RuntimeResult().failure(error) with a new error
RTFailure(error, S) ==
    [value |-> NoneValue, error |-> error, exc |-> "",
     S |-> LogEvent(S, "error", "", error.start_pos.idx, error.msg)]

RTRaise(exc, S) == [value |-> NoneValue, error |-> NoErr, exc |-> exc, S |-> S]

RTBad(r) == IsErr(r.error) \/ r.exc # ""

\* ------------------------------------------------------------------------
\* The execute methods (src/basics.py 1487-1705)
\* ------------------------------------------------------------------------
\* BaseFunction.generate_func_context (1492-1495): the new Context and its
\* new SymbolTable; returns <<S, identity of the new Context>>
generate_func_context(self, S) ==
    LET table == Len(S.tabs) + 1
        func_context == Len(S.ctxs) + 1
    IN  << [S EXCEPT
              !.tabs = Append(@, SymbolTable(S.ctxs[self.context].symbol_table)),
              !.ctxs = Append(@, Context(self.func_name, self.context,
                                         self.start_pos, table)),
              !.calls = Append(@, [context |-> func_context, kind |-> self.t,
                                   func_name |-> self.func_name,
                                   def_context |-> IF self.t = "Function"
                                                   THEN self.def_context ELSE 0,
                                   call_context |-> self.context,
                                   call_pos |-> self.start_pos])],
           func_context >>

\* _check_args that accepts any number of arguments
_check_args_Any(self, arg_names, args) == NoErr

\* BaseFunction._check_args (1497-1509): the error, or NoErr
_check_args(self, arg_names, args) ==
    IF Len(args) > Len(arg_names)
    THEN RuntimeError_(self.start_pos, self.end_pos,
            <<ToString(Len(args) - Len(arg_names)),
              " too many arguments passed into ">> \o self.func_name,
            self.context)
    ELSE IF Len(args) < Len(arg_names)
    THEN RuntimeError_(self.start_pos, self.end_pos,
            <<ToString(Len(arg_names) - Len(args)),
              " too few arguments passed into ">> \o self.func_name,
            self.context)
    ELSE NoErr

\* BaseFunction._populate_args (1511-1514)
RECURSIVE _populate_args(_, _, _, _, _)
_populate_args(arg_names, args, func_context, S, i) ==
    IF i > Len(arg_names) \/ i > Len(args) THEN S
    ELSE _populate_args(arg_names, args, func_context,
            SetSymbol(S, S.ctxs[func_context].symbol_table, arg_names[i],
                      set_context(args[i], func_context)),
            i + 1)

\* BaseFunction.check_and_populate_args (1516-1523)
check_and_populate_args(self, arg_names, args, func_context, S) ==
    LET error == _check_args(self, arg_names, args)
    IN  IF IsErr(error) THEN RTFailure(error, S)
        ELSE RTSuccess(NoneValue, _populate_args(arg_names, args, func_context, S, 1))

\* the arg_names of the execute_<name> methods (1594-1705)
BuiltInArgNames(func_name) ==
    CASE func_name \in {"print", "print_ret", "is_number", "is_string",
                        "is_list", "is_function"} -> <<<<"v","a","l","u","e">>>>
      [] func_name \in {"input", "input_int", "clear"} -> <<>>
      [] func_name = "append" -> <<<<"l","i","s","t">>, <<"v","a","l","u","e">>>>
      [] func_name = "pop" -> <<<<"l","i","s","t">>, <<"i","n","d","e","x">>>>
      [] func_name = "extend" -> <<<<"l","i","s","t","A">>, <<"l","i","s","t","B">>>>

BuiltInError(self, message, func_context) ==
    RuntimeError_(self.start_pos, self.end_pos, <<message>>, func_context)

\* the execute_<name> methods (1591-1705).  print writes to the terminal:
\* the model records the call and keeps no terminal.  print_ret, input,
\* input_int and clear belong to the terminal as well and are not called by
\* the programs of this model.
BuiltInMethod(self, func_context, S) ==
    LET symbols == S.tabs[S.ctxs[func_context].symbol_table].symbols
        name == self.func_name[1]
        TypeTest(types) ==
            RTSuccess(IF symbols[<<"v","a","l","u","e">>].t \in types THEN Number_true
                      ELSE Number_false, S)
    IN  CASE name = "print" ->
               RTSuccess(Number_null, LogEvent(S, "print", "", func_context, <<>>))
          [] name = "is_number" -> TypeTest({"Number"})
          [] name = "is_string" -> TypeTest({"String"})
          [] name = "is_list" -> TypeTest({"List"})
          [] name = "is_function" -> TypeTest({"Function", "BuiltInFunction"})
          [] name = "append" ->
               IF symbols[<<"l","i","s","t">>].t # "List"
               THEN RTFailure(BuiltInError(self, "First argument must be list",
                                           func_context), S)
               ELSE RTSuccess(Number_null,
                        [S EXCEPT !.bufs[symbols[<<"l","i","s","t">>].buf] =
                                      Append(@, symbols[<<"v","a","l","u","e">>])])
          [] name = "pop" ->
               IF symbols[<<"l","i","s","t">>].t # "List"
               THEN RTFailure(BuiltInError(self, "First argument must be list",
                                           func_context), S)
               ELSE IF symbols[<<"i","n","d","e","x">>].t # "Number"
               THEN RTFailure(BuiltInError(self, "Second argument must be number",
                                           func_context), S)
               ELSE LET elements == S.bufs[symbols[<<"l","i","s","t">>].buf]
                        index == symbols[<<"i","n","d","e","x">>]
                    IN  IF PyIndexOk(elements, index)
                        THEN RTSuccess(elements[PyIndex(elements, index)],
                                [S EXCEPT !.bufs[symbols[<<"l","i","s","t">>].buf] =
                                    RemoveAt(@, PyIndex(elements, index))])
                        ELSE RTFailure(BuiltInError(self,
                                "Element at this index could not be removed from list because index is out of bounds",
                                func_context), S)
          [] name = "extend" ->
               IF symbols[<<"l","i","s","t","A">>].t # "List"
               THEN RTFailure(BuiltInError(self, "First argument must be list",
                                           func_context), S)
               ELSE IF symbols[<<"l","i","s","t","B">>].t # "List"
               THEN RTFailure(BuiltInError(self, "Second argument must be list",
                                           func_context), S)
               ELSE RTSuccess(Number_null,
                        [S EXCEPT !.bufs[symbols[<<"l","i","s","t","A">>].buf] =
                                      @ \o S.bufs[symbols[<<"l","i","s","t","B">>].buf]])

\* BuiltInFunction.execute (1561-1574); func_name is held as <<name>>
BuiltInFunction_execute(self, args, S) ==
    LET g == generate_func_context(self, S)
        func_context == g[2]
        c == check_and_populate_args(self, BuiltInArgNames(self.func_name[1]),
                                     args, func_context, g[1])
    IN  IF RTBad(c) THEN c ELSE BuiltInMethod(self, func_context, c.S)

\* ------------------------------------------------------------------------
\* INTERPRETER (src/basics.py 1838-2049)
\* The interpreter is the store S together with the stack of the visits and
\* executes that are running: a frame is [fn, pc, node, context, ...locals]
\* (self and args in place of node for an execute), pc the point the method
\* has reached.  ret is the [value, error] of the RuntimeResult that the
\* method that returned last handed back, exc the exception that was
\* raised.  One step runs the method on top of the stack up to its next
\* visit or execute, or to its return.
\* ------------------------------------------------------------------------
VisitFrame(node, context) ==
    [fn |-> "visit", pc |-> 0, node |-> node, context |-> context]

\* the running method becomes f and calls the method of frame g
ICall(I, f, g) ==
    [I EXCEPT !.stack = Append([@ EXCEPT ![Len(@)] = f], g)]

\* the running method returns the RuntimeResult rt, or raises rt.exc
IReturn(I, rt) ==
    IF rt.exc # "" THEN [I EXCEPT !.S = rt.S, !.exc = rt.exc]
    ELSE [I EXCEPT !.stack = SubSeq(@, 1, Len(@) - 1), !.S = rt.S,
                   !.ret = [value |-> rt.value, error |-> rt.error]]

\* "if runtime_result.error: return runtime_result": the error of the
\* method that returned is handed on, with no value
IPropagate(I) ==
    [I EXCEPT !.stack = SubSeq(@, 1, Len(@) - 1),
              !.ret = [value |-> NoneValue, error |-> I.ret.error]]

\* Interpreter.visit (1839-1844): the _visit_ method of the type of the node
visit(I, f) ==
    [I EXCEPT !.S = LogEvent(@, "visit", f.node.t, f.node.start_pos.idx, <<>>),
              !.stack = [@ EXCEPT ![Len(@)] = [f EXCEPT !.fn = f.node.t]]]

NumberOfToken(value) ==
    IF value.k = "int" THEN Number(value.n, 1, FALSE)
    ELSE Number(value.num, value.den, TRUE)

_visit_NumberNode(I, f) ==
    IReturn(I, RTSuccess(set_pos(set_context(NumberOfToken(f.node.token.value),
                                             f.context),
                                 f.node.start_pos, f.node.end_pos), I.S))

_visit_StringNode(I, f) ==
    IReturn(I, RTSuccess(set_pos(set_context(String(f.node.token.value.s),
                                             f.context),
                                 f.node.start_pos, f.node.end_pos), I.S))

\* List(elements) of a new elements list
NewList(S, elements) ==
    [S |-> [S EXCEPT !.bufs = Append(@, elements)],
     value |-> List(Len(S.bufs) + 1)]

\* the loop of _visit_ListNode and its return (1861-1865)
ListNodeLoop(I, f, i, error, elements) ==
    IF i > Len(f.node.element_nodes)
    THEN LET l == NewList(I.S, elements)
         IN  IReturn(I, [value |-> set_pos(set_context(l.value, f.context),
                                           f.node.start_pos, f.node.end_pos),
                         error |-> error, exc |-> "", S |-> l.S])
    ELSE ICall(I, [fn |-> "ListNode", pc |-> 1, node |-> f.node,
                   context |-> f.context, i |-> i, error |-> error,
                   elements |-> elements],
               VisitFrame(f.node.element_nodes[i], f.context))

\* line 1863 reads "if runtime_result.error: runtime_result", an expression
\* statement: the loop goes on
_visit_ListNode(I, f) ==
    CASE f.pc = 0 -> ListNodeLoop(I, f, 1, NoErr, <<>>)
      [] f.pc = 1 ->
           ListNodeLoop(I, f, f.i + 1,
                        IF IsErr(I.ret.error) THEN I.ret.error ELSE f.error,
                        Append(f.elements, I.ret.value))

BinOpMethod(operator) ==
    CASE operator.type = "PLUS" -> "add"
      [] operator.type = "MINUS" -> "subtract"
      [] operator.type = "MUL" -> "multiply"
      [] operator.type = "DIV" -> "divide_by"
      [] operator.type = "POW" -> "power"
      [] operator.type = "EE" -> "eq"
      [] operator.type = "NE" -> "neq"
      [] operator.type = "LT" -> "lt"
      [] operator.type = "LTE" -> "lte"
      [] operator.type = "GT" -> "gt"
      [] operator.type = "GTE" -> "gte"
      [] Match(operator, "KEYWORD", <<"a","n","d">>) -> "and_"
      [] Match(operator, "KEYWORD", <<"o","r">>) -> "or_"

\* the end of _visit_BinOpNode and _visit_UnaryOpNode (1903-1906, 1919-1922):
\* o is the (result, error) pair of the operation
OpReturn(I, f, o) ==
    LET S2 == [I.S EXCEPT !.bufs = o.bufs]
    IN  IF o.exc # "" THEN IReturn(I, RTRaise(o.exc, S2))
        ELSE IF IsErr(o.error) THEN IReturn(I, RTFailure(o.error, S2))
        ELSE IReturn(I, RTSuccess(set_pos(o.value, f.node.start_pos,
                                          f.node.end_pos), S2))

\* _visit_BinOpNode that visits the right operand before the left one
_visit_BinOpNode_RightFirst(I, f) ==
    CASE f.pc = 0 ->
           ICall(I, [fn |-> "BinOpNode", pc |-> 1, node |-> f.node,
                     context |-> f.context, left |-> NoneValue],
                 VisitFrame(f.node.right_node, f.context))
      [] f.pc = 1 ->
           IF IsErr(I.ret.error) THEN IPropagate(I)
           ELSE ICall(I, [f EXCEPT !.pc = 2, !.left = I.ret.value],
                      VisitFrame(f.node.left_node, f.context))
      [] f.pc = 2 ->
           IF IsErr(I.ret.error) THEN IPropagate(I)
           ELSE OpReturn(I, f, BinaryOp(BinOpMethod(f.node.operator),
                                        I.ret.value, f.left, I.S.bufs))

_visit_BinOpNode(I, f) ==
    CASE f.pc = 0 ->
           ICall(I, [fn |-> "BinOpNode", pc |-> 1, node |-> f.node,
                     context |-> f.context, left |-> NoneValue],
                 VisitFrame(f.node.left_node, f.context))
      [] f.pc = 1 ->
           IF IsErr(I.ret.error) THEN IPropagate(I)
           ELSE ICall(I, [f EXCEPT !.pc = 2, !.left = I.ret.value],
                      VisitFrame(f.node.right_node, f.context))
      [] f.pc = 2 ->
           IF IsErr(I.ret.error) THEN IPropagate(I)
           ELSE OpReturn(I, f, BinaryOp(BinOpMethod(f.node.operator), f.left,
                                        I.ret.value, I.S.bufs))

\* Number.not_ (1432); every other Value has not_(self, other), which the
\* call result.not_() cannot reach: TypeError
_visit_UnaryOpNode(I, f) ==
    CASE f.pc = 0 ->
           ICall(I, [f EXCEPT !.fn = "UnaryOpNode", !.pc = 1],
                 VisitFrame(f.node.node, f.context))
      [] f.pc = 1 ->
           LET result == I.ret.value
           IN  IF IsErr(I.ret.error) THEN IPropagate(I)
               ELSE IF f.node.operator.type = "MINUS"
               THEN OpReturn(I, f, BinaryOp("multiply", result, IntNumber(-1),
                                            I.S.bufs))
               ELSE IF Match(f.node.operator, "KEYWORD", <<"n","o","t">>)
               THEN IF result.t = "Number"
                    THEN OpReturn(I, f, ListOpResult(
                             BoolResult(result, result.num = 0), I.S.bufs))
                    ELSE OpReturn(I, f, ListOpResult(OpExc("TypeError"),
                                                     I.S.bufs))
               ELSE OpReturn(I, f, ListOpResult(OpValue(result), I.S.bufs))

\* _visit_VarAssignmentNode that writes to the global table, the first
\* table of the store, from every context
_visit_VarAssignmentNode_Global(I, f) ==
    CASE f.pc = 0 ->
           ICall(I, [f EXCEPT !.fn = "VarAssignmentNode", !.pc = 1],
                 VisitFrame(f.node.value_node, f.context))
      [] f.pc = 1 ->
           LET var_name == f.node.var_name_token.value.s
               value == I.ret.value
           IN  IF IsErr(I.ret.error) THEN IPropagate(I)
               ELSE IReturn(I, RTSuccess(value,
                        SetSymbol(I.S, 1, var_name, value)))

_visit_VarAssignmentNode(I, f) ==
    CASE f.pc = 0 ->
           ICall(I, [f EXCEPT !.fn = "VarAssignmentNode", !.pc = 1],
                 VisitFrame(f.node.value_node, f.context))
      [] f.pc = 1 ->
           LET var_name == f.node.var_name_token.value.s
               value == I.ret.value
           IN  IF IsErr(I.ret.error) THEN IPropagate(I)
               ELSE IReturn(I, RTSuccess(value,
                        SetSymbol(I.S, I.S.ctxs[f.context].symbol_table,
                                  var_name, value)))

\* _visit_VarAccessNode with a copy of the elements: the value read from a
\* name has a buffer of its own
_visit_VarAccessNode_OwnBuffer(I, f) ==
    LET var_name == f.node.var_name_token.value.s
        g == SymbolTable_get(I.S.tabs, I.S.ctxs[f.context].symbol_table,
                             var_name)
    IN  IF g.exc # "" THEN IReturn(I, RTRaise(g.exc, I.S))
        ELSE IF ~g.found
        THEN IReturn(I, RTFailure(RuntimeError_(f.node.start_pos, f.node.end_pos,
                        <<"'">> \o var_name \o <<"' is not defined">>,
                        f.context), I.S))
        ELSE IF g.value.t = "List"
        THEN LET l == NewList(I.S, I.S.bufs[g.value.buf])
             IN  IReturn(I, RTSuccess(set_context(set_pos(l.value, f.node.start_pos,
                                                          f.node.end_pos),
                                                  f.context), l.S))
        ELSE IReturn(I, RTSuccess(set_context(set_pos(g.value, f.node.start_pos,
                                                      f.node.end_pos),
                                              f.context), I.S))

\* "if not value" at line 1939 is a test for None: no Value class defines
\* __bool__ or __len__
_visit_VarAccessNode(I, f) ==
    LET var_name == f.node.var_name_token.value.s
        g == SymbolTable_get(I.S.tabs, I.S.ctxs[f.context].symbol_table,
                             var_name)
    IN  IF g.exc # "" THEN IReturn(I, RTRaise(g.exc, I.S))
        ELSE IF ~g.found
        THEN IReturn(I, RTFailure(RuntimeError_(f.node.start_pos, f.node.end_pos,
                        <<"'">> \o var_name \o <<"' is not defined">>,
                        f.context), I.S))
        ELSE IReturn(I, RTSuccess(set_context(set_pos(g.value, f.node.start_pos,
                                                      f.node.end_pos),
                                              f.context), I.S))

\* the loop over node.cases of _visit_IfNode, and the else case (1953-1968)
IfNodeLoop(I, f, i) ==
    IF i > Len(f.node.cases)
    THEN IF Len(f.node.else_case) > 0
         THEN ICall(I, [fn |-> "IfNode", pc |-> 3, node |-> f.node,
                        context |-> f.context, i |-> i],
                    VisitFrame(f.node.else_case[1], f.context))
         ELSE IReturn(I, RTSuccess(Number_null, I.S))
    ELSE ICall(I, [fn |-> "IfNode", pc |-> 1, node |-> f.node,
                   context |-> f.context, i |-> i],
               VisitFrame(f.node.cases[i][1], f.context))

_visit_IfNode(I, f) ==
    CASE f.pc = 0 -> IfNodeLoop(I, f, 1)
      [] f.pc = 1 ->
           IF IsErr(I.ret.error) THEN IPropagate(I)
           ELSE IF is_true(I.ret.value)
           THEN ICall(I, [f EXCEPT !.pc = 2],
                      VisitFrame(f.node.cases[f.i][2], f.context))
           ELSE IfNodeLoop(I, f, f.i + 1)
      [] f.pc = 2 ->
           IF IsErr(I.ret.error) THEN IPropagate(I)
           ELSE IReturn(I, RTSuccess(IF f.node.cases[f.i][3] THEN Number_null
                                     ELSE I.ret.value, I.S))
      [] f.pc = 3 ->
           IF IsErr(I.ret.error) THEN IPropagate(I)
           ELSE IReturn(I, RTSuccess(IF f.node.else_case[2] THEN Number_null
                                     ELSE I.ret.value, I.S))

\* the value a loop returns (1997, 2012)
LoopReturn(I, f, elements) ==
    IF f.node.should_return_null THEN IReturn(I, RTSuccess(Number_null, I.S))
    ELSE LET l == NewList(I.S, elements)
         IN  IReturn(I, RTSuccess(set_pos(set_context(l.value, f.context),
                                          f.node.start_pos, f.node.end_pos),
                                  l.S))

\* the loop with a condition that takes the end value in: i <= end, i >= end
ForNodeLoop_Inclusive(I, f, i, elements) ==
    LET end_value == f.end_value
        step_value == f.step_value
        go == IF step_value.num >= 0
              THEN i.num * end_value.den <= end_value.num * i.den
              ELSE i.num * end_value.den >= end_value.num * i.den
        S1 == SetSymbol([I.S EXCEPT !.fuel = @ - 1],
                        I.S.ctxs[f.context].symbol_table,
                        f.node.var_name_token.value.s,
                        Number(i.num, i.den, i.fl))
        i2 == Number(i.num * step_value.den + step_value.num * i.den,
                     i.den * step_value.den, i.fl \/ step_value.fl)
    IN  IF ~go THEN LoopReturn(I, f, elements)
        ELSE IF I.S.fuel = 0 THEN IReturn(I, RTRaise("OutOfFuel", I.S))
        ELSE ICall([I EXCEPT !.S = S1],
                   [f EXCEPT !.pc = 4, !.i = i2, !.elements = elements],
                   VisitFrame(f.node.body_node, f.context))

\* the loop "while condition()" of _visit_ForNode (1991-1997); i is the
\* Python number [num, den, fl].  A run that has used up its fuel is cut
\* with the outcome "OutOfFuel".
ForNodeLoop(I, f, i, elements) ==
    LET end_value == f.end_value
        step_value == f.step_value
        go == IF step_value.num >= 0
              THEN i.num * end_value.den < end_value.num * i.den
              ELSE i.num * end_value.den > end_value.num * i.den
        S1 == SetSymbol([I.S EXCEPT !.fuel = @ - 1],
                        I.S.ctxs[f.context].symbol_table,
                        f.node.var_name_token.value.s,
                        Number(i.num, i.den, i.fl))
        i2 == Number(i.num * step_value.den + step_value.num * i.den,
                     i.den * step_value.den, i.fl \/ step_value.fl)
    IN  IF ~go THEN LoopReturn(I, f, elements)
        ELSE IF I.S.fuel = 0 THEN IReturn(I, RTRaise("OutOfFuel", I.S))
        ELSE ICall([I EXCEPT !.S = S1],
                   [f EXCEPT !.pc = 4, !.i = i2, !.elements = elements],
                   VisitFrame(f.node.body_node, f.context))

\* start, end and step are read through .value (1985-1989): a List or a
\* function has no such attribute (AttributeError); a String has one, and
\* comparing or adding it to a number is a TypeError
ForNodeStart(I, f, step_value) ==
    LET HasValue(v) == v.t \in {"Number", "String"}
        IsNumber(v) == v.t = "Number"
    IN  IF ~HasValue(f.start_value) \/ ~HasValue(step_value)
           \/ ~HasValue(f.end_value)
        THEN IReturn(I, RTRaise("AttributeError", I.S))
        ELSE IF IsNumber(f.start_value) /\ IsNumber(f.end_value)
                /\ IsNumber(step_value)
        THEN ForNodeLoop(I, [f EXCEPT !.step_value = step_value],
                         f.start_value, <<>>)
        ELSE IReturn(I, RTRaise("TypeError", I.S))

_visit_ForNode(I, f) ==
    CASE f.pc = 0 ->
           ICall(I, [fn |-> "ForNode", pc |-> 1, node |-> f.node,
                     context |-> f.context, start_value |-> NoneValue,
                     end_value |-> NoneValue, step_value |-> NoneValue,
                     i |-> NoneValue, elements |-> <<>>],
                 VisitFrame(f.node.start_value_node, f.context))
      [] f.pc = 1 ->
           IF IsErr(I.ret.error) THEN IPropagate(I)
           ELSE ICall(I, [f EXCEPT !.pc = 2, !.start_value = I.ret.value],
                      VisitFrame(f.node.end_value_node, f.context))
      [] f.pc = 2 ->
           IF IsErr(I.ret.error) THEN IPropagate(I)
           ELSE IF f.node.step_value_node.t # "None"
           THEN ICall(I, [f EXCEPT !.pc = 3, !.end_value = I.ret.value],
                      VisitFrame(f.node.step_value_node, f.context))
           ELSE ForNodeStart(I, [f EXCEPT !.end_value = I.ret.value],
                             IntNumber(1))
      [] f.pc = 3 ->
           IF IsErr(I.ret.error) THEN IPropagate(I)
           ELSE ForNodeStart(I, f, I.ret.value)
      [] f.pc = 4 ->
           IF IsErr(I.ret.error) THEN IPropagate(I)
           ELSE ForNodeLoop(I, f, f.i, Append(f.elements, I.ret.value))

_visit_WhileNode(I, f) ==
    CASE f.pc = 0 ->
           ICall(I, [fn |-> "WhileNode", pc |-> 1, node |-> f.node,
                     context |-> f.context, elements |-> <<>>],
                 VisitFrame(f.node.condition_node, f.context))
      [] f.pc = 1 ->
           IF IsErr(I.ret.error) THEN IPropagate(I)
           ELSE IF ~is_true(I.ret.value) THEN LoopReturn(I, f, f.elements)
           ELSE IF I.S.fuel = 0 THEN IReturn(I, RTRaise("OutOfFuel", I.S))
           ELSE ICall([I EXCEPT !.S.fuel = @ - 1], [f EXCEPT !.pc = 2],
                      VisitFrame(f.node.body_node, f.context))
      [] f.pc = 2 ->
           IF IsErr(I.ret.error) THEN IPropagate(I)
           ELSE ICall(I, [f EXCEPT !.pc = 1,
                                   !.elements = Append(@, I.ret.value)],
                      VisitFrame(f.node.condition_node, f.context))

RECURSIVE TokenValues(_)
TokenValues(tokens) ==
    IF tokens = <<>> THEN <<>>
    ELSE <<tokens[1].value.s>> \o TokenValues(Tail(tokens))

_visit_FuncDefinitionNode(I, f) ==
    LET node == f.node
        named == node.func_name_token.type # "None"
        func_name == IF named THEN node.func_name_token.value.s ELSE <<>>
        func_value ==
            set_context(set_pos(
                Function(func_name, TokenValues(node.arg_name_tokens),
                         node.body_node, node.should_return_null, f.context),
                node.start_pos, node.end_pos), f.context)
    IN  IReturn(I, RTSuccess(func_value,
            IF named
            THEN SetSymbol(I.S, I.S.ctxs[f.context].symbol_table, func_name,
                           func_value)
            ELSE I.S))

\* the end of _visit_FuncCallNode (2045-2049): x is what execute returned
FuncCallReturn(I, f, x) ==
    IF RTBad(x) THEN IReturn(I, [x EXCEPT !.value = NoneValue])
    ELSE IReturn(I, RTSuccess(set_context(set_pos(x.value, f.node.start_pos,
                                                  f.node.end_pos),
                                          f.context), x.S))

\* the loop over node.arg_nodes of _visit_FuncCallNode and the call of
\* execute (2040-2044); Value.execute (1331-1332) for what is no function
ArgNodeLoop(I, f, args) ==
    IF Len(args) < Len(f.node.arg_nodes)
    THEN ICall(I, [f EXCEPT !.pc = 2, !.args = args],
               VisitFrame(f.node.arg_nodes[Len(args) + 1], f.context))
    ELSE CASE f.value_to_call.t = "Function" ->
                ICall(I, [f EXCEPT !.pc = 3, !.args = args],
                      [fn |-> "Function_execute", pc |-> 0,
                       self |-> f.value_to_call, args |-> args])
           [] f.value_to_call.t = "BuiltInFunction" ->
                FuncCallReturn(I, f,
                    BuiltInFunction_execute(f.value_to_call, args, I.S))
           [] OTHER ->
                FuncCallReturn(I, f,
                    RTFailure(illegal_operation(f.value_to_call), I.S))

_visit_FuncCallNode(I, f) ==
    CASE f.pc = 0 ->
           ICall(I, [fn |-> "FuncCallNode", pc |-> 1, node |-> f.node,
                     context |-> f.context, value_to_call |-> NoneValue,
                     args |-> <<>>],
                 VisitFrame(f.node.node_to_call, f.context))
      [] f.pc = 1 ->
           IF IsErr(I.ret.error) THEN IPropagate(I)
           ELSE ArgNodeLoop(I, [f EXCEPT !.value_to_call =
                                    set_context(set_pos(I.ret.value,
                                                        f.node.start_pos,
                                                        f.node.end_pos),
                                                f.context)],
                            <<>>)
      [] f.pc = 2 ->
           IF IsErr(I.ret.error) THEN IPropagate(I)
           ELSE ArgNodeLoop(I, f, Append(f.args, I.ret.value))
      [] f.pc = 3 ->
           FuncCallReturn(I, f, [value |-> I.ret.value, error |-> I.ret.error,
                                 exc |-> "", S |-> I.S])

\* Function.execute (1532-1546)
Function_execute(I, f) ==
    CASE f.pc = 0 ->
           LET g == generate_func_context(f.self, I.S)
               func_context == g[2]
               c == check_and_populate_args(f.self, f.self.arg_names, f.args,
                                            func_context, g[1])
           IN  IF RTBad(c) THEN IReturn(I, c)
               ELSE ICall([I EXCEPT !.S = c.S], [f EXCEPT !.pc = 1],
                          VisitFrame(f.self.body_node, func_context))
      [] f.pc = 1 ->
           IF IsErr(I.ret.error) THEN IPropagate(I)
           ELSE IReturn(I, RTSuccess(IF f.self.should_return_null
                                     THEN Number_null ELSE I.ret.value, I.S))

\* one step of the method on top of the stack
InterpreterStep(I) ==
    LET f == I.stack[Len(I.stack)]
    IN  CASE f.fn = "visit" -> visit(I, f)
          [] f.fn = "NumberNode" -> _visit_NumberNode(I, f)
          [] f.fn = "StringNode" -> _visit_StringNode(I, f)
          [] f.fn = "ListNode" -> _visit_ListNode(I, f)
          [] f.fn = "BinOpNode" -> _visit_BinOpNode(I, f)
          [] f.fn = "UnaryOpNode" -> _visit_UnaryOpNode(I, f)
          [] f.fn = "VarAssignmentNode" -> _visit_VarAssignmentNode(I, f)
          [] f.fn = "VarAccessNode" -> _visit_VarAccessNode(I, f)
          [] f.fn = "IfNode" -> _visit_IfNode(I, f)
          [] f.fn = "ForNode" -> _visit_ForNode(I, f)
          [] f.fn = "WhileNode" -> _visit_WhileNode(I, f)
          [] f.fn = "FuncDefinitionNode" -> _visit_FuncDefinitionNode(I, f)
          [] f.fn = "FuncCallNode" -> _visit_FuncCallNode(I, f)
          [] f.fn = "Function_execute" -> Function_execute(I, f)

InterpreterDone(I) == I.exc # "" \/ Len(I.stack) = 0

\* n steps of the interpreter, or fewer when it is done before
RECURSIVE InterpreterLoop(_, _)
InterpreterLoop(I, n) ==
    IF InterpreterDone(I) \/ n = 0 THEN I
    ELSE IF n = 1 THEN InterpreterStep(I)
    ELSE InterpreterLoop(InterpreterLoop(I, n \div 2), n - (n \div 2))

\* Interpreter().visit(node, context) from the store S, cut with the
\* outcome "OutOfFuel" after MaxSteps steps
Interpreter_visit(node, context, S) ==
    LET I == InterpreterLoop([S |-> S, stack |-> <<VisitFrame(node, context)>>,
                              ret |-> [value |-> NoneValue, error |-> NoErr],
                              exc |-> ""], MaxSteps)
    IN  IF I.exc # "" THEN RTRaise(I.exc, I.S)
        ELSE IF Len(I.stack) > 0 THEN RTRaise("OutOfFuel", I.S)
        ELSE [value |-> I.ret.value, error |-> I.ret.error, exc |-> "",
              S |-> I.S]

\* ------------------------------------------------------------------------
\* RUN (src/basics.py 2056-2094)
\* ------------------------------------------------------------------------
\* global_symbol_table (2056-2074)
GlobalSymbols ==
    (<<"n","u","l","l">> :> Number_null) @@ (<<"f","a","l","s","e">> :> Number_false) @@
    (<<"t","r","u","e">> :> Number_true) @@ (<<"m","a","t","h","_","p","i">> :> Number_math_PI) @@
    (<<"p","r","i","n","t">> :> BuiltInFunction(<<"print">>)) @@
    (<<"p","r","i","n","t","_","r","e","t">> :> BuiltInFunction(<<"print_ret">>)) @@
    (<<"i","n","p","u","t">> :> BuiltInFunction(<<"input">>)) @@
    (<<"i","n","p","u","t","_","i","n","t">> :> BuiltInFunction(<<"input_int">>)) @@
    (<<"c","l","e","a","r">> :> BuiltInFunction(<<"clear">>)) @@
    (<<"c","l","s">> :> BuiltInFunction(<<"clear">>)) @@
    (<<"i","s","_","n","u","m">> :> BuiltInFunction(<<"is_number">>)) @@
    (<<"i","s","_","s","t","r">> :> BuiltInFunction(<<"is_string">>)) @@
    (<<"i","s","_","l","i","s","t">> :> BuiltInFunction(<<"is_list">>)) @@
    (<<"i","s","_","f","u","n","c">> :> BuiltInFunction(<<"is_function">>)) @@
    (<<"a","p","p","e","n","d">> :> BuiltInFunction(<<"append">>)) @@
    (<<"p","o","p">> :> BuiltInFunction(<<"pop">>)) @@
    (<<"e","x","t","e","n","d">> :> BuiltInFunction(<<"extend">>))

global_symbol_table == 1

InitialStore ==
    [tabs |-> << [symbols |-> GlobalSymbols, parent |-> 0] >>,
     ctxs |-> <<>>, bufs |-> <<>>, log |-> <<>>, calls |-> <<>>, fuel |-> MaxIter]

\* the outcome of run: stage tells which return statement of run was taken
\* ("lex" line 2081, "parse" line 2086, "eval" line 2094) or that an
\* exception escaped ("exc"); value and error are the returned pair
RunResult(stage, value, error, exc, S) ==
    [stage |-> stage, value |-> value, error |-> error, exc |-> exc, S |-> S]

\* lines 2089-2094 of run: the Context '<main>' on the global symbol table,
\* the visit of the tree, the pair returned
Interpret(node, S0) ==
    LET S1 == [S0 EXCEPT
                 !.ctxs = Append(@, Context(<<"<main>">>, 0, NoPos,
                                            global_symbol_table))]
    IN  Interpreter_visit(node, Len(S0.ctxs) + 1, S1)

Interpreted(result) ==
    IF result.exc # ""
    THEN RunResult("exc", NoneValue, NoErr, result.exc, result.S)
    ELSE RunResult("eval", result.value, result.error, "", result.S)

\* run interpreting the tree before it looks at the parser's error
Parsed_InterpretFirst(parser, S0) ==
    IF parser.exc # "" THEN RunResult("exc", NoneValue, NoErr, parser.exc, S0)
    ELSE IF parser.ret.node.t = "None"
    THEN RunResult("parse", NoneValue, parser.ret.error, "", S0)
    ELSE IF IsErr(parser.ret.error)
    THEN RunResult("parse", NoneValue, parser.ret.error, "",
                   Interpret(parser.ret.node, S0).S)
    ELSE Interpreted(Interpret(parser.ret.node, S0))

\* lines 2086-2094 of run: parser is the Parser after parse(), parser.ret
\* the ParseResult it returned
Parsed(parser, S0) ==
    IF parser.exc # "" THEN RunResult("exc", NoneValue, NoErr, parser.exc, S0)
    ELSE IF IsErr(parser.ret.error)
    THEN RunResult("parse", NoneValue, parser.ret.error, "", S0)
    ELSE Interpreted(Interpret(parser.ret.node, S0))

\* lines 2081-2094 of run: lexer is the Lexer after tokenize()
Lexed(lexer, S0) ==
    IF lexer.st = "exc" THEN RunResult("exc", NoneValue, NoErr, "ValueError", S0)
    ELSE IF IsErr(lexer.error)
    THEN RunResult("lex", NoneValue, lexer.error, "", S0)
    ELSE Parsed(parse(lexer.tokens), S0)

run(text, S0) == Lexed(tokenize(text), S0)

\* ------------------------------------------------------------------------
\* The source texts handed to run
\* ------------------------------------------------------------------------
\* 1 / 0; var x = 5
Prog_DivThenVar ==
    <<"1"," ","/"," ","0",";"," ","v","a","r"," ","x"," ","="," ","5">>

\* x
Prog_X ==
    <<"x">>

\* [1 / 0, y]
Prog_ListDiv ==
    <<"[","1"," ","/"," ","0",","," ","y","]">>

\* if 1 == 2 then 10 else 20
Prog_IfElse ==
    <<"i","f"," ","1"," ","=","="," ","2"," ","t","h","e","n"," ","1","0"," ","e","l","s","e"," ","2","0">>

\* if 1 == 1 then 10 else 20
Prog_IfThen ==
    <<"i","f"," ","1"," ","=","="," ","1"," ","t","h","e","n"," ","1","0"," ","e","l","s","e"," ","2","0">>

\* func f() -> g(); func g() -> 1; f()
Prog_LateBinding ==
    <<"f","u","n","c"," ","f","(",")"," ","-",">"," ","g","(",")",";"," ","f","u","n","c"," ","g","(",")"," ","-",">"," ","1",";"," ","f","(",")">>

\* func k(h) -> h(); func g() -> 1; k(g)
Prog_CallParam ==
    <<"f","u","n","c"," ","k","(","h",")"," ","-",">"," ","h","(",")",";"," ","f","u","n","c"," ","g","(",")"," ","-",">"," ","1",";"," ","k","(","g",")">>

\* func g() -> 1; g()
Prog_CallTop ==
    <<"f","u","n","c"," ","g","(",")"," ","-",">"," ","1",";"," ","g","(",")">>

\* @
Prog_Illegal ==
    <<"@">>

\* 1 !
Prog_Bang ==
    <<"1"," ","!">>

\* var x = 1 )
Prog_StrayParen ==
    <<"v","a","r"," ","x"," ","="," ","1"," ",")">>

\* var x = 7
Prog_VarX ==
    <<"v","a","r"," ","x"," ","="," ","7">>

\* 1 +
Prog_Dangling ==
    <<"1"," ","+">>

\* .
Prog_Dot ==
    <<".">>

\* g()
Prog_G ==
    <<"g", "(", ")">>

Programs ==
    {Prog_DivThenVar,
     Prog_X,
     Prog_ListDiv,
     Prog_IfElse,
     Prog_IfThen,
     Prog_LateBinding,
     Prog_CallParam,
     Prog_CallTop,
     Prog_Illegal,
     Prog_Bang,
     Prog_StrayParen,
     Prog_VarX,
     Prog_Dangling,
     Prog_Dot,
     Prog_G}

\* the characters of the texts handed to the lexer alone: one of each class
\* of the loop of tokenize
LexAlphabet == {" ", "1", ".", "a", "-", "=", "!", "<", ">", "\"", ";", "@"}

LexTexts == UNION {[1..n -> LexAlphabet] : n \in 0..MaxLen}

\* ------------------------------------------------------------------------
\* State
\*   lx     the Lexer at work in tokenize (text, curr_pos, curr_char, tokens)
\*   store  the objects that outlive a call of run: global_symbol_table and
\*          what it reaches, with the history of the last call
\*   out    the text and the outcome of the last call of run
\*   pre    the store at the start of the last call of run
\*   runs   the number of calls of run so far
\* ------------------------------------------------------------------------
VARIABLES lx, store, out, pre, runs

vars == <<lx, store, out, pre, runs>>

NoRun == [text |-> <<>>, stage |-> "none", value |-> NoneValue,
          error |-> NoErr, exc |-> ""]

\* the history of a call starts empty
Fresh(S) == [S EXCEPT !.log = <<>>, !.calls = <<>>, !.fuel = MaxIter]

Init ==
    /\ lx = LexerNew(<<>>)
    /\ store = InitialStore
    /\ out = NoRun
    /\ pre = InitialStore
    /\ runs = 0

\* one call run('<stdin>', text), as the shell makes it
Returned(text, r) ==
    /\ store' = r.S
    /\ out' = [text |-> text, stage |-> r.stage, value |-> r.value,
               error |-> r.error, exc |-> r.exc]

\* a call of run on a global symbol table made anew for the call
Run_NewGlobals(text) ==
    /\ runs < MaxRuns
    /\ Returned(text, run(text, InitialStore))
    /\ pre' = InitialStore
    /\ runs' = runs + 1
    /\ UNCHANGED lx

Run(text) ==
    /\ runs < MaxRuns
    /\ Returned(text, run(text, Fresh(store)))
    /\ pre' = Fresh(store)
    /\ runs' = runs + 1
    /\ UNCHANGED lx

Next == \E text \in Programs : Run(text)

Spec == Init /\ [][Next]_vars

\* ------------------------------------------------------------------------
\* The lexer alone: Lexer(file_name, text).tokenize(), one iteration of its
\* loop per step
\* ------------------------------------------------------------------------
LexInit ==
    /\ lx \in {LexerNew(text) : text \in LexTexts}
    /\ store = InitialStore
    /\ out = NoRun
    /\ pre = InitialStore
    /\ runs = 0

LexBranch(cls) ==
    /\ lx.st = "run"
    /\ CharClass(lx.ch) = cls
    /\ lx' = TokStep(lx)
    /\ UNCHANGED <<store, out, pre, runs>>

LexWhitespace == LexBranch("ws")

LexNumber == LexBranch("num")

LexIdentifier == LexBranch("letter")

LexSingle == LexBranch("single")

LexMinus == LexBranch("minus")

LexEq == LexBranch("eq")

LexNeq == LexBranch("neq")

LexLt == LexBranch("lt")

LexGt == LexBranch("gt")

LexString == LexBranch("string")

LexIllegal == LexBranch("illegal")

LexEOF == LexBranch("eof")

LexNext ==
    \/ LexWhitespace
    \/ LexNumber
    \/ LexIdentifier
    \/ LexSingle
    \/ LexMinus
    \/ LexEq
    \/ LexNeq
    \/ LexLt
    \/ LexGt
    \/ LexString
    \/ LexIllegal
    \/ LexEOF

LexSpec == LexInit /\ [][LexNext]_vars

\* ------------------------------------------------------------------------
\* One call of run on a fresh global symbol table, the first line typed into
\* the shell, for families of source texts
\* ------------------------------------------------------------------------
\* func f(); 1; end; f()
Prog_BlockFunc ==
    <<"f","u","n","c"," ","f","(",")",";"," ","1",";"," ","e","n","d",";"," ","f","(",")">>

\* func f(a); a; end; f(1)
Prog_BlockFuncArg ==
    <<"f","u","n","c"," ","f","(","a",")",";"," ","a",";"," ","e","n","d",";"," ","f","(","1",")">>

\* func (a, b); a; end
Prog_BlockFuncAnon ==
    <<"f","u","n","c"," ","(","a",","," ","b",")",";"," ","a",";"," ","e","n","d">>

\* block-form function definitions with zero, one and two parameters
BlockFuncTexts == {Prog_BlockFunc, Prog_BlockFuncArg, Prog_BlockFuncAnon}

\* the largest operand of the generated expressions
MaxNum == 3

\* the decimal numeral of a natural number, as it is typed
RECURSIVE Decimal(_)
Decimal(n) ==
    LET digit == <<"0","1","2","3","4","5","6","7","8","9">>[(n % 10) + 1]
    IN  IF n < 10 THEN <<digit>> ELSE Decimal(n \div 10) \o <<digit>>

\* a op1 b op2 c, as it is typed
Infix(a, op1, b, op2, c) ==
    Decimal(a) \o <<" ", op1, " ">> \o Decimal(b) \o <<" ", op2, " ">> \o Decimal(c)

\* the expressions of two operators: form names the operators and the
\* parentheses
ArithForms ==
    {"sub_sub", "sub_add", "add_mul", "mul_add", "mul_sub", "paren_mul",
     "pow_pow", "mul_pow", "pow_mul", "neg_pow", "neg_sub"}

\* the operands of a form; the exponents are kept small
ArithOperands(form) ==
    CASE form \in {"pow_pow", "mul_pow"} -> (1..MaxNum) \X {2, 3} \X {1, 2}
      [] form = "pow_mul" -> (1..MaxNum) \X {1, 2} \X (0..MaxNum)
      [] form = "neg_pow" -> (1..MaxNum) \X {1, 2, 3} \X {0}
      [] OTHER -> (0..MaxNum) \X (0..MaxNum) \X (0..MaxNum)

ArithText(form, a, b, c) ==
    CASE form = "sub_sub" -> Infix(a, "-", b, "-", c)
      [] form = "sub_add" -> Infix(a, "-", b, "+", c)
      [] form = "add_mul" -> Infix(a, "+", b, "*", c)
      [] form = "mul_add" -> Infix(a, "*", b, "+", c)
      [] form = "mul_sub" -> Infix(a, "*", b, "-", c)
      [] form = "paren_mul" -> <<"(">> \o Decimal(a) \o <<" ", "+", " ">>
                                  \o Decimal(b) \o <<")", " ", "*", " ">> \o Decimal(c)
      [] form = "pow_pow" -> Infix(a, "^", b, "^", c)
      [] form = "mul_pow" -> Infix(a, "*", b, "^", c)
      [] form = "pow_mul" -> Infix(a, "^", b, "*", c)
      [] form = "neg_pow" -> <<"-">> \o Decimal(a) \o <<" ", "^", " ">> \o Decimal(b)
      [] form = "neg_sub" -> <<"-">> \o Decimal(a) \o <<" ", "-", " ">> \o Decimal(b)
                                 \o <<" ", "-", " ">> \o Decimal(c)

\* 1 + 2 * 3
Prog_AddMul ==
    <<"1"," ","+"," ","2"," ","*"," ","3">>

\* (1 + 2) * 3 ^ 2
Prog_ParenMulPow ==
    <<"(","1"," ","+"," ","2",")"," ","*"," ","3"," ","^"," ","2">>

\* 8 - 3 - 2
Prog_SubSub ==
    <<"8"," ","-"," ","3"," ","-"," ","2">>

\* 2 ^ 3 ^ 2
Prog_PowPow ==
    <<"2"," ","^"," ","3"," ","^"," ","2">>

\* -2 ^ 2
Prog_NegPow ==
    <<"-","2"," ","^"," ","2">>

ArithExamples ==
    {Prog_AddMul, Prog_ParenMulPow, Prog_SubSub, Prog_PowPow, Prog_NegPow}

ArithTexts ==
    ArithExamples \cup
    {ArithText(form, x[1], x[2], x[3]) : <<form, x>> \in
        UNION {{<<g, y>> : y \in ArithOperands(g)} : g \in ArithForms}}

\* expressions E as they are typed: whole numbers, 0.0, -1, "", "ab", [],
\* [1, 2], null and print
ValueTexts ==
    {Decimal(n) : n \in 0..MaxNum} \cup
    {<<"0", ".", "0">>, <<"-", "1">>, <<"\"", "\"">>, <<"\"", "a", "b", "\"">>,
     <<"[", "]">>, <<"[", "1", ",", " ", "2", "]">>, <<"n", "u", "l", "l">>,
     <<"p", "r", "i", "n", "t">>}

\* var x = E; x
AssignText(E) == <<"v", "a", "r", " ", "x", " ", "=", " ">> \o E \o <<";", " ", "x">>

\* func f() -> [var x = 0, x]; f()
Prog_AssignInCall ==
    <<"f","u","n","c"," ","f","(",")"," ","-",">"," ","[","v","a","r"," ","x"," ","="," ","0",","," ","x","]",";"," ","f","(",")">>

\* var x = 1; var x = 0; x
Prog_Reassign ==
    <<"v","a","r"," ","x"," ","="," ","1",";"," ","v","a","r"," ","x"," ","="," ","0",";"," ","x">>

AssignTexts ==
    {AssignText(E) : E \in ValueTexts} \cup {Prog_AssignInCall, Prog_Reassign}

\* y
Prog_Y ==
    <<"y">>

\* var x = 1; y
Prog_VarThenY ==
    <<"v","a","r"," ","x"," ","="," ","1",";"," ","y">>

\* [y]
Prog_ListY ==
    <<"[","y","]">>

\* func f() -> y; f()
Prog_CallY ==
    <<"f","u","n","c"," ","f","(",")"," ","-",">"," ","y",";"," ","f","(",")">>

\* func f(a) -> a + y; f(1)
Prog_CallArgY ==
    <<"f","u","n","c"," ","f","(","a",")"," ","-",">"," ","a"," ","+"," ","y",";"," ","f","(","1",")">>

\* accesses of y, which nothing binds, in the global frame and in the frame
\* of a call
UndefTexts == {Prog_Y, Prog_VarThenY, Prog_ListY, Prog_CallY, Prog_CallArgY}

\* the first n of the texts, separated by a comma and a blank
RECURSIVE CommaList(_, _)
CommaList(texts, n) ==
    IF n = 0 THEN <<>>
    ELSE IF n = 1 THEN texts[1]
    ELSE CommaList(texts, n - 1) \o <<",", " ">> \o texts[n]

\* func f(PARAMS) -> print(7); f(ARGS) with p parameters and n arguments
CallText(p, n) ==
    <<"f", "u", "n", "c", " ", "f", "(">> \o CommaList(<< <<"a">>, <<"b">> >>, p)
        \o <<")", " ", "-", ">", " ", "p", "r", "i", "n", "t", "(", "7", ")", ";", " ", "f", "(">>
        \o CommaList([i \in 1..n |-> Decimal(i)], n) \o <<")">>

\* NAME(ARGS) with n arguments
BuiltInCallText(name, n) ==
    name \o <<"(">> \o CommaList([i \in 1..n |-> Decimal(i)], n) \o <<")">>

\* the built-in functions called, with the number of their parameters
BuiltInParams ==
    (<<"p", "r", "i", "n", "t">> :> 1) @@ (<<"a", "p", "p", "e", "n", "d">> :> 2)

\* calls with a number of arguments that is not the number of parameters
MismatchTexts ==
    {CallText(p, n) : <<p, n>> \in {x \in (0..2) \X (0..MaxNum) : x[1] # x[2]}} \cup
    {BuiltInCallText(x[1], x[2]) :
        x \in {y \in (DOMAIN BuiltInParams) \X (0..MaxNum) : BuiltInParams[y[1]] # y[2]}}

\* dividends as they are typed
DividendTexts ==
    {Decimal(n) : n \in 0..MaxNum} \cup
    {<<"1", "0">>, <<"2", ".", "5">>, <<"-", "1">>}

\* divisors that evaluate to zero, as they are typed, with the offsets of
\* the start and of the end of the operand in them: 0, 0.0, -0 and (1 - 1),
\* whose operand is what the parentheses hold
ZeroDivisors ==
    {[text |-> <<"0">>, from |-> 0, to |-> 1],
     [text |-> <<"0", ".", "0">>, from |-> 0, to |-> 3],
     [text |-> <<"-", "0">>, from |-> 0, to |-> 2],
     [text |-> <<"(", "1", " ", "-", " ", "1", ")">>, from |-> 1, to |-> 6]}

\* A / B
DivideText(A, B) == A \o <<" ", "/", " ">> \o B

DivideTexts == {DivideText(A, B.text) : <<A, B>> \in DividendTexts \X ZeroDivisors}

\* the longest list of the generated list expressions
MaxList == 3

\* a whole number as it is typed, the negative ones with the unary minus
IntText(i) == IF i < 0 THEN <<"-">> \o Decimal(0 - i) ELSE Decimal(i)

\* the list [5, 6, ...] of n elements, as it is typed
ListText(n) == <<"[">> \o CommaList([k \in 1..n |-> Decimal(k + 4)], n) \o <<"]">>

\* var l = LIST; l / I; l
IndexText(n, i) ==
    <<"v", "a", "r", " ", "l", " ", "=", " ">> \o ListText(n)
        \o <<";", " ", "l", " ", "/", " ">> \o IntText(i) \o <<";", " ", "l">>

\* the lengths and the indices: every index from one below -len to one
\* above len - 1
IndexCases == {x \in (0..MaxList) \X ((0 - MaxList - 1)..(MaxList + 1)) :
                  x[2] >= 0 - x[1] - 1 /\ x[2] <= x[1] + 1}

IndexTexts == {IndexText(x[1], x[2]) : x \in IndexCases}

\* a and b, a or b
LogicText(a, word, b) ==
    Decimal(a) \o <<" ">> \o word \o <<" ">> \o Decimal(b)

LogicTexts ==
    {LogicText(x[1], word, x[2]) :
        <<x, word>> \in ((0..MaxNum) \X (0..MaxNum)) \X {<<"a", "n", "d">>, <<"o", "r">>}}

\* for i = A to B do BODY, and for i = A to B step S do BODY; step is the
\* text of S, empty for none
ForText(a, b, step, body) ==
    <<"f", "o", "r", " ", "i", " ", "=", " ">> \o Decimal(a)
        \o <<" ", "t", "o", " ">> \o Decimal(b)
        \o (IF step = <<>> THEN <<>> ELSE <<" ", "s", "t", "e", "p", " ">> \o step)
        \o <<" ", "d", "o", " ">> \o body

\* the steps: none, and the whole numbers from -2 to 2
ForSteps == {<<>>} \cup {IntText(z) : z \in (0 - 2)..2}

\* the value of a step as it is typed
StepValue(step) ==
    IF step = <<>> THEN 1 ELSE CHOOSE z \in (0 - 2)..2 : IntText(z) = step

\* start, end and step of the loops: every loop of them ends
ForCases ==
    {x \in (0..MaxNum) \X (0..MaxNum) \X ForSteps :
        StepValue(x[3]) = 0 => x[1] >= x[2]}

\* the body i, and the body i * i
ForBodies == {<<"i">>, <<"i", " ", "*", " ", "i">>}

\* for i = 1 to 4 do i * i
Prog_ForSquares ==
    <<"f","o","r"," ","i"," ","="," ","1"," ","t","o"," ","4"," ","d","o"," ","i"," ","*"," ","i">>

ForTexts ==
    {ForText(x[1], x[2], x[3], body) : <<x, body>> \in ForCases \X ForBodies}
        \cup {Prog_ForSquares}

\* the mutations of a list through the name x: the built-in functions
\* append, pop and extend, and the operators +, - and * with the list as the
\* left operand
Mutations == {"append", "pop", "extend", "add", "subtract", "multiply"}

MutationText(mut, x) ==
    CASE mut = "append" -> <<"a", "p", "p", "e", "n", "d", "(">> \o x \o <<",", " ", "9", ")">>
      [] mut = "pop" -> <<"p", "o", "p", "(">> \o x \o <<",", " ", "0", ")">>
      [] mut = "extend" -> <<"e", "x", "t", "e", "n", "d", "(">> \o x \o <<",", " ", "[", "8", ",", " ", "9", "]", ")">>
      [] mut = "add" -> x \o <<" ", "+", " ", "9">>
      [] mut = "subtract" -> x \o <<" ", "-", " ", "0">>
      [] mut = "multiply" -> x \o <<" ", "*", " ", "[", "8", ",", " ", "9", "]">>

\* var a = LIST; var b = a; MUTATION of x; y
ShareText(n, mut, x, y) ==
    <<"v", "a", "r", " ", "a", " ", "=", " ">> \o ListText(n) \o <<";", " ", "v", "a", "r", " ", "b", " ", "=", " ", "a", ";", " ">>
        \o MutationText(mut, x) \o <<";", " ">> \o y

\* the lengths, the mutations, the name mutated through and the name read
ShareCases == (1..MaxList) \X Mutations \X {<<"a">>, <<"b">>} \X {<<"a">>, <<"b">>}

ShareTexts == {ShareText(x[1], x[2], x[3], x[4]) : x \in ShareCases}

\* var l = LIST; pop(l, I); l
PopText(n, i) ==
    <<"v", "a", "r", " ", "l", " ", "=", " ">> \o ListText(n) \o <<";", " ", "p", "o", "p", "(", "l", ",", " ">> \o IntText(i) \o <<")", ";", " ", "l">>

\* pop with a first argument that is no list, and with a second argument
\* that is no number
Prog_PopNumber == <<"p", "o", "p", "(", "1", ",", " ", "0", ")">>

Prog_PopString == <<"p", "o", "p", "(", "\"", "a", "\"", ",", " ", "0", ")">>

Prog_PopFunction == <<"p", "o", "p", "(", "p", "r", "i", "n", "t", ",", " ", "0", ")">>

Prog_PopByString == <<"p", "o", "p", "(", "[", "5", "]", ",", " ", "\"", "a", "\"", ")">>

Prog_PopByList == <<"p", "o", "p", "(", "[", "5", "]", ",", " ", "[", "0", "]", ")">>

Prog_PopByFunction == <<"p", "o", "p", "(", "[", "5", "]", ",", " ", "p", "r", "i", "n", "t", ")">>

PopTypeTexts ==
    {Prog_PopNumber, Prog_PopString, Prog_PopFunction, Prog_PopByString,
     Prog_PopByList, Prog_PopByFunction}

PopTexts == {PopText(x[1], x[2]) : x \in IndexCases} \cup PopTypeTexts

\* an operand of each variant of Value, as it is typed
OperandText(variant) ==
    CASE variant = "Number" -> <<"1">>
      [] variant = "String" -> <<"\"", "a", "\"">>
      [] variant = "List" -> <<"[", "1", "]">>
      [] variant = "BuiltInFunction" -> <<"p", "r", "i", "n", "t">>

Variants == {"Number", "String", "List", "BuiltInFunction"}

\* the binary operators, as they are typed
BinaryOperators ==
    {<<"+">>, <<"-">>, <<"*">>, <<"/">>, <<"^">>, <<"=", "=">>, <<"!", "=">>, <<"<">>, <<">">>, <<"<", "=">>,
     <<">", "=">>, <<"a", "n", "d">>, <<"o", "r">>}

\* the combinations that a variant implements: every operator of Number on
\* a Number, + of String on a String, * of String on a Number, + of List on
\* every value, - and / of List on a Number, * of List on a List
Supported(left, op, right) ==
    \/ left = "Number" /\ right = "Number"
    \/ left = "String" /\ op = <<"+">> /\ right = "String"
    \/ left = "String" /\ op = <<"*">> /\ right = "Number"
    \/ left = "List" /\ op = <<"+">>
    \/ left = "List" /\ op \in {<<"-">>, <<"/">>} /\ right = "Number"
    \/ left = "List" /\ op = <<"*">> /\ right = "List"

UnsupportedCases ==
    {x \in Variants \X BinaryOperators \X Variants : ~Supported(x[1], x[2], x[3])}

\* LEFT OP RIGHT
OperationText(left, op, right) ==
    OperandText(left) \o <<" ">> \o op \o <<" ">> \o OperandText(right)

UnsupportedTexts == {OperationText(x[1], x[2], x[3]) : x \in UnsupportedCases}

\* statements that end before they are complete, after one token or more
MalformedStatements ==
    {<<"v", "a", "r", " ", "x", " ", "=">>, <<"2", " ", "+">>, <<"v", "a", "r", " ", "x", " ", "=", " ", "2", " ", "+">>, <<"(", "2">>, <<"[", "2", ",">>, <<"i", "f", " ", "1", " ", "t", "h", "e", "n">>,
     <<"-">>, <<"v", "a", "r">>, <<"n", "o", "t">>, <<"f", "(">>, <<"v", "a", "r", " ", "x", " ", "=", " ", "(", "2">>}

\* 1; STATEMENT
AfterValid(statement) == <<"1", ";", " ">> \o statement

MalformedTexts == {AfterValid(statement) : statement \in MalformedStatements}

\* a global x and a call that binds x in its frame: by var, by var of a
\* parameter, by a named func, and by var in a call made by another call
FrameForms == {"var", "param", "func", "nested"}

\* var x = V; func f() -> var x = W; f(); x, and its like for the other forms
FrameText(form, v, w) ==
    <<"v", "a", "r", " ", "x", " ", "=", " ">> \o Decimal(v) \o
    CASE form = "var" ->
           <<";", " ", "f", "u", "n", "c", " ", "f", "(", ")", " ", "-", ">", " ", "v", "a", "r", " ", "x", " ", "=", " ">> \o Decimal(w) \o <<";", " ", "f", "(", ")", ";", " ", "x">>
      [] form = "param" ->
           <<";", " ", "f", "u", "n", "c", " ", "f", "(", "a", ")", " ", "-", ">", " ", "v", "a", "r", " ", "x", " ", "=", " ", "a", ";", " ", "f", "(">> \o Decimal(w) \o <<")", ";", " ", "x">>
      [] form = "func" ->
           <<";", " ", "f", "u", "n", "c", " ", "f", "(", ")", " ", "-", ">", " ", "f", "u", "n", "c", " ", "x", "(", ")", " ", "-", ">", " ">> \o Decimal(w) \o <<";", " ", "f", "(", ")", ";", " ", "x">>
      [] form = "nested" ->
           <<";", " ", "f", "u", "n", "c", " ", "g", "(", ")", " ", "-", ">", " ", "v", "a", "r", " ", "x", " ", "=", " ">> \o Decimal(w)
               \o <<";", " ", "f", "u", "n", "c", " ", "k", "(", "h", ")", " ", "-", ">", " ", "h", "(", ")", ";", " ", "k", "(", "g", ")", ";", " ", "x">>

FrameCases == FrameForms \X (0..MaxNum) \X (0..MaxNum)

FrameTexts == {FrameText(x[1], x[2], x[3]) : x \in FrameCases}

\* expressions whose parts write to a symbol table or to a list: the
\* operands of a binary operation, the callee and the arguments of a call,
\* the elements of a list
OrderForms == {"operands", "appends", "call", "elements"}

\* the operators between the operands
OrderOperators == {<<"+">>, <<"-">>, <<"*">>, <<"<">>, <<"a", "n", "d">>, <<"o", "r">>}

OrderText(form, op, a, b) ==
    CASE form = "operands" ->
           <<"(", "v", "a", "r", " ", "x", " ", "=", " ">> \o Decimal(a) \o <<")", " ">> \o op \o <<" ", "(", "v", "a", "r", " ", "x", " ", "=", " ">>
               \o Decimal(b) \o <<")", ";", " ", "x">>
      [] form = "appends" ->
           <<"v", "a", "r", " ", "l", " ", "=", " ", "[", "]", ";", " ", "a", "p", "p", "e", "n", "d", "(", "l", ",", " ">> \o Decimal(a) \o <<")", " ">> \o op
               \o <<" ", "a", "p", "p", "e", "n", "d", "(", "l", ",", " ">> \o Decimal(b) \o <<")", ";", " ", "l">>
      [] form = "call" ->
           <<"f", "u", "n", "c", " ", "f", "(", "a", ",", " ", "b", ")", " ", "-", ">", " ", "v", "a", "r", " ", "y", " ", "=", " ", "a", " ", "-", " ", "b", ";", " ", "(", "v", "a", "r", " ", "h", " ", "=", " ", "f", ")", "(", "v", "a", "r", " ", "x", " ", "=", " ">>
               \o Decimal(a) \o <<",", " ", "v", "a", "r", " ", "x", " ", "=", " ">> \o Decimal(b) \o <<")", ";", " ", "x">>
      [] form = "elements" ->
           <<"[", "v", "a", "r", " ", "x", " ", "=", " ">> \o Decimal(a) \o <<",", " ", "v", "a", "r", " ", "x", " ", "=", " ">> \o Decimal(b)
               \o <<"]", ";", " ", "x">>

OrderCases ==
    {c \in OrderForms \X OrderOperators \X (0..MaxNum) \X (0..MaxNum) :
        c[1] \in {"call", "elements"} => c[2] = <<"+">>}

OrderTexts == {OrderText(c[1], c[2], c[3], c[4]) : c \in OrderCases}

\* - on a String, a List, a BuiltInFunction and a Function
Prog_NegString == <<"-", "\"", "a", "\"">>

Prog_NegEmptyString == <<"-", "\"", "\"">>

Prog_NegList == <<"-", "[", "1", "]">>

Prog_NegEmptyList == <<"-", "[", "]">>

Prog_NegBuiltIn == <<"-", "p", "r", "i", "n", "t">>

Prog_NegFunction == <<"f", "u", "n", "c", " ", "f", "(", ")", " ", "-", ">", " ", "1", ";", " ", "-", "f">>

NegTexts ==
    {Prog_NegString, Prog_NegEmptyString, Prog_NegList, Prog_NegEmptyList,
     Prog_NegBuiltIn, Prog_NegFunction}

\* start, end and step of the loops with the step 0 and start below end
ZeroStepCases == {x \in (0..MaxNum) \X (0..MaxNum) \X {<<"0">>} : x[1] < x[2]}

\* the body that binds the loop variable again
Body_Reassign == <<"v", "a", "r", " ", "i", " ", "=", " ", "0">>

\* the loops of step 0, and the loops that end with the body var i = 0
LoopTexts ==
    {ForText(x[1], x[2], x[3], <<"i">>) : x \in ZeroStepCases} \cup
    {ForText(x[1], x[2], x[3], Body_Reassign) : x \in ForCases}

\* the first call run('<stdin>', text) of the shell, on a text of a family
Eval(texts) == \E text \in texts : runs = 0 /\ Run(text)

EvalFuncDef == Eval(BlockFuncTexts)

EvalArith == Eval(ArithTexts)

EvalAssign == Eval(AssignTexts)

EvalUndef == Eval(UndefTexts)

EvalCall == Eval(MismatchTexts)

EvalDivide == Eval(DivideTexts)

EvalIndex == Eval(IndexTexts)

EvalLogic == Eval(LogicTexts)

EvalFor == Eval(ForTexts)

EvalShare == Eval(ShareTexts)

EvalPop == Eval(PopTexts)

EvalOperation == Eval(UnsupportedTexts)

EvalMalformed == Eval(MalformedTexts)

EvalFrame == Eval(FrameTexts)

EvalOrder == Eval(OrderTexts)

EvalNegate == Eval(NegTexts)

EvalLoop == Eval(LoopTexts)

EvalNext ==
    \/ EvalFuncDef
    \/ EvalArith
    \/ EvalAssign
    \/ EvalUndef
    \/ EvalCall
    \/ EvalDivide
    \/ EvalIndex
    \/ EvalLogic
    \/ EvalFor
    \/ EvalShare
    \/ EvalPop
    \/ EvalOperation
    \/ EvalMalformed
    \/ EvalFrame
    \/ EvalOrder
    \/ EvalNegate
    \/ EvalLoop

EvalSpec == Init /\ [][EvalNext]_vars

\* ------------------------------------------------------------------------
\* Properties of run (checked under Spec)
\* ------------------------------------------------------------------------
\* C1: when run returns a pair (value, error), exactly one of the two is
\* not None; in particular a returned Runtime error comes with value None
C1_ExactlyOneNonNull ==
    out.stage \in {"lex", "parse", "eval"} =>
        ((out.value.t = "None") # (out.error.name = "None"))

\* C2: once a visit has made a Runtime error, nothing more is visited, no
\* symbol table is written, nothing is printed, and the error run returns is
\* that error
C2_ShortCircuit ==
    out.stage = "eval" =>
        \A i \in 1..Len(store.log) :
            store.log[i].ev = "error" =>
                /\ \A j \in (i + 1)..Len(store.log) :
                       store.log[j].ev \notin {"visit", "set", "print"}
                /\ out.error.name = "RuntimeError"
                /\ out.error.msg = store.log[i].name
                /\ out.error.start_pos.idx = store.log[i].idx

\* C3: func f() -> g(); func g() -> 1; f() evaluates without error and the
\* value of its last statement, the call f(), is the Number 1: the lookup of
\* g from the frame of the call finds the binding of the global frame
C3_LateBinding ==
    out.text = Prog_LateBinding =>
        /\ out.stage = "eval"
        /\ out.error.name = "None"
        /\ out.value.t = "List"
        /\ LET elements == store.bufs[out.value.buf]
           IN  /\ Len(elements) = 3
               /\ elements[3].t = "Number"
               /\ elements[3].num = 1
               /\ elements[3].den = 1

\* C4: if 1 == 2 then 10 else 20 evaluates without error to the Number 20,
\* the value of its else branch
C4_ElseBranch ==
    out.text = Prog_IfElse =>
        /\ out.stage = "eval"
        /\ out.error.name = "None"
        /\ out.value.t = "List"
        /\ LET elements == store.bufs[out.value.buf]
           IN  /\ Len(elements) = 1
               /\ elements[1].t = "Number"
               /\ elements[1].num = 20
               /\ elements[1].den = 1

\* C5: the Context made by every call of a Function has as parent the
\* context in which the function was defined, as display name the name of
\* the function, as parent entry position the position of the call, and a
\* symbol table whose parent is the symbol table of the definition context
C5_LexicalParent ==
    \A i \in 1..Len(store.calls) :
        LET c == store.calls[i]
            ctx == store.ctxs[c.context]
        IN  c.kind = "Function" =>
                /\ ctx.parent = c.def_context
                /\ ctx.display_name = c.func_name
                /\ ctx.parent_entry_pos = c.call_pos
                /\ store.tabs[ctx.symbol_table].parent =
                       store.ctxs[c.def_context].symbol_table

\* C10: when run returns the error of the lexer or of the parser, nothing
\* was visited and the store, the global symbol table with it, is as it was
\* when the call began
C10_NoEvaluationOnError ==
    out.stage \in {"lex", "parse"} =>
        /\ store = pre
        /\ store.log = <<>>
        /\ store.tabs[global_symbol_table] = pre.tabs[global_symbol_table]

\* run returned the parser's error for var x = 1 ), whose tree is the
\* assignment to x
C10_Witness ==
    /\ out.stage = "parse"
    /\ out.text = Prog_StrayParen
    /\ out.error.name = "InvalidSyntaxError"

\* ------------------------------------------------------------------------
\* Properties of tokenize (checked under LexSpec)
\* ------------------------------------------------------------------------
\* C6: tokenize ends either with no error and a token list whose last
\* token is EOF, or with an IllegalCharacter or ExpectedCharacter error;
\* it ends in no other way
C6_TokenizeOutcomes ==
    lx.st # "run" =>
        \/ /\ lx.st = "ok"
           /\ lx.error.name = "None"
           /\ Len(lx.tokens) > 0
           /\ lx.tokens[Len(lx.tokens)].type = "EOF"
        \/ /\ lx.st = "err"
           /\ lx.error.name \in {"IllegalCharacterError", "ExpectedCharacterError"}

\* C7: in a text without string literals that lexes, the character that
\* follows =, < or > and is neither a blank nor the = that completes ==, <=
\* or >= is the first character of a token
C7_NextCharLexed ==
    (lx.st = "ok" /\ \A k \in 1..Len(lx.text) : lx.text[k] # "\"") =>
        \A i \in 1..(Len(lx.text) - 1) :
            (lx.text[i] \in {"=", "<", ">"} /\ lx.text[i + 1] \notin {" ", "="}) =>
                \E k \in 1..Len(lx.tokens) : lx.tokens[k].start_pos.idx = i

\* C8: when tokenize returns its tokens, the last one is EOF, every token
\* starts no later than it ends, and the tokens are in source order
C8_TokensOrdered ==
    lx.st = "ok" =>
        /\ Len(lx.tokens) > 0
        /\ lx.tokens[Len(lx.tokens)].type = "EOF"
        /\ \A k \in 1..Len(lx.tokens) :
               lx.tokens[k].start_pos.idx <= lx.tokens[k].end_pos.idx
        /\ \A k \in 1..(Len(lx.tokens) - 1) :
               lx.tokens[k].start_pos.idx <= lx.tokens[k + 1].start_pos.idx

\* tokenize returned three tokens or more, one of them of several characters
C8_Witness ==
    /\ lx.st = "ok"
    /\ Len(lx.tokens) >= 3
    /\ \E k \in 1..Len(lx.tokens) :
           lx.tokens[k].end_pos.idx > lx.tokens[k].start_pos.idx + 1

C11_BlockFunction ==
    out.text \in BlockFuncTexts =>
        /\ out.stage = "eval"
        /\ out.error.name = "None"
        /\ out.value.t = "List"
        /\ LET elements == store.bufs[out.value.buf]
           IN  /\ elements[1].t = "Function"
               /\ elements[1].should_return_null
               /\ elements[1].body_node.t # "None"
               /\ out.text = Prog_BlockFunc => Len(elements[1].arg_names) = 0
               /\ out.text = Prog_BlockFuncArg => Len(elements[1].arg_names) = 1
               /\ out.text = Prog_BlockFuncAnon => Len(elements[1].arg_names) = 2
               /\ out.text # Prog_BlockFuncAnon =>
                      /\ elements[Len(elements)].t = "Number"
                      /\ elements[Len(elements)].num = 0

\* the value that arithmetic gives the expression of a form
ArithValue(form, a, b, c) ==
    CASE form = "sub_sub" -> (a - b) - c
      [] form = "sub_add" -> (a - b) + c
      [] form = "add_mul" -> a + (b * c)
      [] form = "mul_add" -> (a * b) + c
      [] form = "mul_sub" -> (a * b) - c
      [] form = "paren_mul" -> (a + b) * c
      [] form = "pow_pow" -> a ^ (b ^ c)
      [] form = "mul_pow" -> a * (b ^ c)
      [] form = "pow_mul" -> (a ^ b) * c
      [] form = "neg_pow" -> 0 - (a ^ b)
      [] form = "neg_sub" -> ((0 - a) - b) - c

\* run returned without error the list of the one statement's value, the
\* whole number n
YieldsInt(n) ==
    /\ out.stage = "eval"
    /\ out.error.name = "None"
    /\ out.value.t = "List"
    /\ LET elements == store.bufs[out.value.buf]
       IN  /\ Len(elements) = 1
           /\ elements[1].t = "Number"
           /\ elements[1].num = n
           /\ elements[1].den = 1
           /\ ~elements[1].fl

\* C12: operators group by the descent order additive < multiplicative <
\* unary < power, binary operators of one level group left to right and ^
\* groups right to left: 1 + 2 * 3 is 7, (1 + 2) * 3 ^ 2 is 27, 8 - 3 - 2
\* is 3, 2 ^ 3 ^ 2 is 512, -2 ^ 2 is -4, and every generated expression of
\* two operators has the value that this grouping gives it
C12_Precedence ==
    /\ out.text = Prog_AddMul => YieldsInt(7)
    /\ out.text = Prog_ParenMulPow => YieldsInt(27)
    /\ out.text = Prog_SubSub => YieldsInt(3)
    /\ out.text = Prog_PowPow => YieldsInt(512)
    /\ out.text = Prog_NegPow => YieldsInt(-4)
    /\ \A form \in ArithForms : \A x \in ArithOperands(form) :
           out.text = ArithText(form, x[1], x[2], x[3]) =>
               YieldsInt(ArithValue(form, x[1], x[2], x[3]))

\* run returned 512 for 2 ^ 3 ^ 2, which grouped left to right is 64
C12_Witness ==
    /\ out.text = Prog_PowPow
    /\ YieldsInt(512)

\* two values are equal: the same kind and the same number, characters,
\* elements or function
SameValue(v, w) ==
    /\ v.t = w.t
    /\ CASE v.t = "Number" -> v.num = w.num /\ v.den = w.den /\ v.fl = w.fl
         [] v.t = "String" -> v.s = w.s
         [] v.t = "List" -> store.bufs[v.buf] = store.bufs[w.buf]
         [] v.t \in {"Function", "BuiltInFunction"} -> v.func_name = w.func_name
         [] OTHER -> FALSE

\* C13: after var x = E has evaluated without error, an access of x in the
\* same frame yields a value equal to the value of E, also when that value
\* is Number 0, the empty String or the empty List, in the global frame and
\* in the frame of a call
C13_AssignRoundTrip ==
    /\ \A E \in ValueTexts :
           out.text = AssignText(E) =>
               /\ out.stage = "eval"
               /\ out.error.name = "None"
               /\ out.value.t = "List"
               /\ LET elements == store.bufs[out.value.buf]
                  IN  /\ Len(elements) = 2
                      /\ SameValue(elements[1], elements[2])
                      /\ E = <<"0">> => elements[2].t = "Number" /\ elements[2].num = 0
                      /\ E = <<"\"", "\"">> => elements[2].t = "String" /\ elements[2].s = <<>>
                      /\ E = <<"[", "]">> =>
                             elements[2].t = "List" /\ store.bufs[elements[2].buf] = <<>>
    /\ out.text = Prog_Reassign =>
           /\ out.stage = "eval"
           /\ out.error.name = "None"
           /\ LET elements == store.bufs[out.value.buf]
              IN  /\ Len(elements) = 3
                  /\ SameValue(elements[2], elements[3])
                  /\ elements[3].num = 0
    /\ out.text = Prog_AssignInCall =>
           /\ out.stage = "eval"
           /\ out.error.name = "None"
           /\ LET elements == store.bufs[out.value.buf]
              IN  /\ Len(elements) = 2
                  /\ elements[2].t = "List"
                  /\ Len(store.bufs[elements[2].buf]) = 2
                  /\ SameValue(store.bufs[elements[2].buf][1],
                               store.bufs[elements[2].buf][2])
                  /\ store.bufs[elements[2].buf][2].num = 0

\* run returned for var x = ""; x the empty String twice
C13_Witness ==
    /\ out.text = AssignText(<<"\"", "\"">>)
    /\ out.stage = "eval"
    /\ out.error.name = "None"
    /\ store.bufs[out.value.buf][2].t = "String"
    /\ store.bufs[out.value.buf][2].s = <<>>

\* C14: an access of y, bound in no frame of the chain of the current
\* symbol table, makes run return the Runtime error 'y' is not defined at
\* the position of the access, and no symbol table is written after it
C14_UndefinedName ==
    out.text \in UndefTexts =>
        /\ out.stage = "eval"
        /\ out.error.name = "RuntimeError"
        /\ out.error.msg = <<"'", "y", "' is not defined">>
        /\ out.text[out.error.start_pos.idx + 1] = "y"
        /\ out.error.end_pos.idx = out.error.start_pos.idx + 1
        /\ \A i \in 1..Len(store.log) :
               store.log[i].ev = "error" =>
                   \A j \in (i + 1)..Len(store.log) : store.log[j].ev # "set"
        /\ out.text = Prog_Y => store.tabs = pre.tabs

\* run returned the Runtime error that tells of n arguments for p
\* parameters of the function named by the piece func_name, it bound no name
\* but f, and it neither visited the 7 of the body nor printed
ArgumentsError(p, n, func_name) ==
    /\ out.stage = "eval"
    /\ out.error.name = "RuntimeError"
    /\ out.error.msg =
           <<ToString(IF n > p THEN n - p ELSE p - n),
             IF n > p THEN " too many arguments passed into "
             ELSE " too few arguments passed into ",
             func_name>>
    /\ \A i \in 1..Len(store.log) :
           /\ store.log[i].ev = "set" => store.log[i].name = <<"f">>
           /\ store.log[i].ev # "print"
           /\ store.log[i].ev = "visit" =>
                  out.text[store.log[i].idx + 1] # "7"

\* C15: a call of a function, user-defined or built-in, with n arguments
\* for p parameters, n # p, makes run return the Runtime error "N too many
\* arguments passed into F" or "N too few arguments passed into F" with N
\* the difference; no parameter is bound and the body is not evaluated
C15_ArgumentCount ==
    /\ \A p \in 0..2 : \A n \in 0..MaxNum :
           (p # n /\ out.text = CallText(p, n)) => ArgumentsError(p, n, "f")
    /\ \A n \in 0..MaxNum :
           (n # 1 /\ out.text = BuiltInCallText(<<"p", "r", "i", "n", "t">>, n)) =>
               ArgumentsError(1, n, "print")
    /\ \A n \in 0..MaxNum :
           (n # 2 /\ out.text = BuiltInCallText(<<"a", "p", "p", "e", "n", "d">>, n)) =>
               ArgumentsError(2, n, "append")

\* run returned the error of two arguments too many for f
C15_Witness ==
    /\ out.text = CallText(1, 3)
    /\ out.error.name = "RuntimeError"
    /\ out.error.msg[1] = "2"

\* C16: for every Number a and every Number b that is zero, a / b makes the
\* Runtime error Division by zero, whose start and end are the start and
\* the end of the divisor operand, and the division has no value: the
\* statement's element of the list that run returns is None
C16_DivisionByZero ==
    \A A \in DividendTexts : \A B \in ZeroDivisors :
        out.text = DivideText(A, B.text) =>
            /\ out.stage = "eval"
            /\ out.error.name = "RuntimeError"
            /\ out.error.msg = <<"Division by zero">>
            /\ out.error.start_pos.idx = Len(A) + 3 + B.from
            /\ out.error.end_pos.idx = Len(A) + 3 + B.to
            /\ out.value.t = "List" =>
                   /\ Len(store.bufs[out.value.buf]) = 1
                   /\ store.bufs[out.value.buf][1].t = "None"

\* run returned Division by zero for 2.5 / (1 - 1)
C16_Witness ==
    /\ out.text = DivideText(<<"2", ".", "5">>, <<"(", "1", " ", "-", " ", "1", ")">>)
    /\ out.error.name = "RuntimeError"
    /\ out.error.msg = <<"Division by zero">>

\* elements is the list of the whole numbers 5, 6, ... of n elements
IsListText(elements, n) ==
    /\ Len(elements) = n
    /\ \A k \in 1..n :
           /\ elements[k].t = "Number"
           /\ elements[k].num = k + 4
           /\ elements[k].den = 1

\* C17: for every list L and every integer i with 0 <= i < len(L), L / i
\* is the i-th element of L, counted from 0, and L has the same elements
\* after the indexing as before it
C17_ListIndex ==
    \A x \in IndexCases :
        (x[2] >= 0 /\ x[2] < x[1] /\ out.text = IndexText(x[1], x[2])) =>
            /\ out.stage = "eval"
            /\ out.error.name = "None"
            /\ out.value.t = "List"
            /\ LET elements == store.bufs[out.value.buf]
               IN  /\ Len(elements) = 3
                   /\ elements[2].t = "Number"
                   /\ elements[2].num = x[2] + 5
                   /\ elements[2].den = 1
                   /\ elements[1].t = "List"
                   /\ elements[3].t = "List"
                   /\ IsListText(store.bufs[elements[1].buf], x[1])
                   /\ IsListText(store.bufs[elements[3].buf], x[1])

\* run returned the last element of the list of three for the index 2
C17_Witness ==
    /\ out.text = IndexText(3, 2)
    /\ out.error.name = "None"
    /\ store.bufs[out.value.buf][2].num = 7

\* C18: for every list L and every integer i with i >= len(L) or i < 0,
\* L / i makes a Runtime error and has no element value
C18_IndexOutOfRange ==
    \A x \in IndexCases :
        ((x[2] < 0 \/ x[2] >= x[1]) /\ out.text = IndexText(x[1], x[2])) =>
            /\ out.stage = "eval"
            /\ out.error.name = "RuntimeError"
            /\ out.value.t = "List" => store.bufs[out.value.buf][2].t = "None"

\* both operands of the expression of the last run were visited
BothVisited ==
    /\ \E i \in 1..Len(store.log) :
           store.log[i].ev = "visit" /\ store.log[i].kind = "NumberNode"
               /\ store.log[i].idx = 0
    /\ \E i \in 1..Len(store.log) :
           store.log[i].ev = "visit" /\ store.log[i].kind = "NumberNode"
               /\ store.log[i].idx > 0

\* C19: for all Numbers a and b, a and b is 1 when both are not zero and 0
\* otherwise, a or b is 1 when one of them is not zero and 0 otherwise, and
\* both operands are evaluated
C19_LogicalOps ==
    \A a \in 0..MaxNum : \A b \in 0..MaxNum :
        /\ out.text = LogicText(a, <<"a", "n", "d">>, b) =>
               /\ YieldsInt(IF a # 0 /\ b # 0 THEN 1 ELSE 0)
               /\ BothVisited
        /\ out.text = LogicText(a, <<"o", "r">>, b) =>
               /\ YieldsInt(IF a # 0 \/ b # 0 THEN 1 ELSE 0)
               /\ BothVisited

\* the values a, a + s, a + 2s, ... that i takes: while i < b when s >= 0,
\* while i > b when s < 0
RECURSIVE ForValues(_, _, _)
ForValues(a, b, s) ==
    IF (s >= 0 /\ a < b) \/ (s < 0 /\ a > b)
    THEN <<a>> \o ForValues(a + s, b, s)
    ELSE <<>>

\* run returned without error the list of the one statement's value, the
\* List of the whole numbers of values
YieldsList(values) ==
    /\ out.stage = "eval"
    /\ out.error.name = "None"
    /\ out.value.t = "List"
    /\ Len(store.bufs[out.value.buf]) = 1
    /\ store.bufs[out.value.buf][1].t = "List"
    /\ LET elements == store.bufs[store.bufs[out.value.buf][1].buf]
       IN  /\ Len(elements) = Len(values)
           /\ \A k \in 1..Len(values) :
                  /\ elements[k].t = "Number"
                  /\ elements[k].num = values[k]
                  /\ elements[k].den = 1

Mutated(n, mut) ==
    LET elements == [k \in 1..n |-> k + 4]
    IN  CASE mut \in {"append", "add"} -> elements \o <<9>>
          [] mut \in {"pop", "subtract"} -> Tail(elements)
          [] mut \in {"extend", "multiply"} -> elements \o <<8, 9>>

\* the value is the List of the whole numbers of values
IsListOf(value, values) ==
    /\ value.t = "List"
    /\ LET elements == store.bufs[value.buf]
       IN  /\ Len(elements) = Len(values)
           /\ \A k \in 1..Len(values) :
                  /\ elements[k].t = "Number"
                  /\ elements[k].num = values[k]
                  /\ elements[k].den = 1

\* C21: after var b = a for a list a, a mutation through one of the names
\* by append, pop or extend, or by + - * with the list as the left operand,
\* is observed through both names: the name read afterwards and the bindings
\* of a and of b hold the mutated elements
C21_ListsShared ==
    \A x \in ShareCases :
        out.text = ShareText(x[1], x[2], x[3], x[4]) =>
            /\ out.stage = "eval"
            /\ out.error.name = "None"
            /\ out.value.t = "List"
            /\ Len(store.bufs[out.value.buf]) = 4
            /\ IsListOf(store.bufs[out.value.buf][4], Mutated(x[1], x[2]))
            /\ IsListOf(store.tabs[global_symbol_table].symbols[<<"a">>], Mutated(x[1], x[2]))
            /\ IsListOf(store.tabs[global_symbol_table].symbols[<<"b">>], Mutated(x[1], x[2]))

\* [5, 6] is extended through a and read through b
C21_Witness ==
    /\ out.text = ShareText(2, "extend", <<"a">>, <<"b">>)
    /\ out.error.name = "None"
    /\ IsListOf(store.bufs[out.value.buf][4], <<5, 6, 8, 9>>)

\* C22: pop(L, i) with 0 <= i < len(L) removes the i-th element of L in
\* place and returns it; with i out of bounds it returns a Runtime error and
\* leaves the elements of L unchanged; with a first argument that is no list
\* or a second argument that is no number it returns a Runtime error
C22_Pop ==
    /\ \A x \in IndexCases :
           out.text = PopText(x[1], x[2]) =>
               /\ out.stage = "eval"
               /\ out.value.t = "List"
               /\ Len(store.bufs[out.value.buf]) = 3
               /\ IF x[2] >= 0 /\ x[2] < x[1]
                  THEN /\ out.error.name = "None"
                       /\ store.bufs[out.value.buf][2].t = "Number"
                       /\ store.bufs[out.value.buf][2].num = x[2] + 5
                       /\ IsListOf(store.bufs[out.value.buf][3],
                                   RemoveAt([k \in 1..x[1] |-> k + 4], x[2] + 1))
                  ELSE /\ out.error.name = "RuntimeError"
                       /\ store.bufs[out.value.buf][2].t = "None"
                       /\ IsListOf(store.bufs[out.value.buf][3],
                                   [k \in 1..x[1] |-> k + 4])
    /\ out.text \in PopTypeTexts =>
           /\ out.stage = "eval"
           /\ out.error.name = "RuntimeError"

\* C23: every binary operator applied to an unsupported combination of
\* value variants makes run return the Runtime error IllegalOperationError,
\* and never fails in another way
C23_IllegalOperation ==
    \A x \in UnsupportedCases :
        out.text = OperationText(x[1], x[2], x[3]) =>
            /\ out.stage = "eval"
            /\ out.error.name = "RuntimeError"
            /\ out.error.msg = <<"IllegalOperationError">>

\* the symbols of global_symbol_table in a store
GlobalsOf(S) == S.tabs[global_symbol_table].symbols

\* the call of run that made the log bound name in global_symbol_table
Rebound(log, name) ==
    \E k \in 1..Len(log) :
        /\ log[k].ev = "set"
        /\ log[k].idx = global_symbol_table
        /\ log[k].name = name

\* every name bound before a call of run is bound after it, to the same
\* value unless the call bound it again
GlobalsKept ==
    \A name \in DOMAIN GlobalsOf(store) :
        /\ name \in DOMAIN GlobalsOf(store')
        /\ ~Rebound(store'.log, name) =>
               GlobalsOf(store')[name] = GlobalsOf(store)[name]

\* a call of run on x, and on g(), when an earlier call has bound the name,
\* reads the value that was bound
GlobalsVisible ==
    /\ (out.text = Prog_X /\ <<"x">> \in DOMAIN GlobalsOf(pre)) =>
           /\ out.stage = "eval"
           /\ out.error.name = "None"
           /\ out.value.t = "List"
           /\ Len(store.bufs[out.value.buf]) = 1
           /\ SameValue(store.bufs[out.value.buf][1], GlobalsOf(pre)[<<"x">>])
    /\ (out.text = Prog_G /\ <<"g">> \in DOMAIN GlobalsOf(pre)) =>
           /\ out.stage = "eval"
           /\ out.error.name = "None"
           /\ GlobalsOf(pre)[<<"g">>].t = "Function"
           /\ ~Rebound(store.log, <<"g">>)
           /\ store.bufs[out.value.buf][1].t = "Number"
           /\ store.bufs[out.value.buf][1].num = 1

\* C24: global_symbol_table is one table for every call of run: a name
\* bound by a top-level var or func in one call is bound to the same value in
\* every later call until a call binds it again, a later call reads that
\* value, and the preloaded names stay bound
C24_GlobalsPersist == []GlobalsVisible /\ [][GlobalsKept]_vars

\* the second call of run reads the x that the first call bound
C24_Witness ==
    /\ runs = 2
    /\ out.text = Prog_X
    /\ out.error.name = "None"
    /\ <<"x">> \notin DOMAIN GlobalSymbols
    /\ store.bufs[out.value.buf][1].num = 7

\* the error that the productions make of a statement: the error of parse
\* on the statement alone
ErrorOf(statement) == parse(tokenize(statement).tokens).ret.error

\* C25: the error of a statement that fails after one advancement or more
\* is the error that parse returns: for a malformed statement after a valid
\* one run returns at the parser's error, which is the error of the
\* malformed statement at its place in the text, and evaluates nothing
C25_CommittedError ==
    \A statement \in MalformedStatements :
        out.text = AfterValid(statement) =>
            /\ out.stage = "parse"
            /\ out.error.name = "InvalidSyntaxError"
            /\ out.error.msg = ErrorOf(statement).msg
            /\ out.error.start_pos.idx = ErrorOf(statement).start_pos.idx + 3

\* the token cursor of the Parser when parse returns
CursorAfter(text) == parse(tokenize(text).tokens).token_index

\* C26: when the attempt at a further statement fails and is abandoned, the
\* reversal puts the token cursor back where the attempt began, whatever
\* number of tokens the attempt advanced: after 1; STATEMENT with a
\* statement that fails, where nothing follows the reversal, the cursor is at
\* the first token of the statement, the third token of the text
C26_CursorRestored ==
    \A statement \in MalformedStatements :
        out.text = AfterValid(statement) => CursorAfter(out.text) = 2

\* the tables that get reaches from a table by parent, the table excluded
RECURSIVE Ancestors(_, _)
Ancestors(tabs, table) ==
    IF tabs[table].parent = 0 THEN {}
    ELSE {tabs[table].parent} \cup Ancestors(tabs, tabs[table].parent)

\* the symbol table of the context that the last call made
LastFrame == store.ctxs[store.calls[Len(store.calls)].context].symbol_table

IsInt(value, n) == value.t = "Number" /\ value.num = n /\ value.den = 1

\* C27: SymbolTable.set writes to the current frame only: var x = E, or a
\* named func x, evaluated in a call binds x in the frame of that call and
\* leaves x unbound in the frames between it and the global table and the
\* global x as it was, and after the call the caller reads its own x
C27_SetCurrentFrame ==
    \A c \in FrameCases :
        out.text = FrameText(c[1], c[2], c[3]) =>
            /\ out.stage = "eval"
            /\ out.error.name = "None"
            /\ out.value.t = "List"
            /\ LET elements == store.bufs[out.value.buf]
               IN  IsInt(elements[Len(elements)], c[2])
            /\ IsInt(GlobalsOf(store)[<<"x">>], c[2])
            /\ LastFrame # global_symbol_table
            /\ <<"x">> \in DOMAIN store.tabs[LastFrame].symbols
            /\ IF c[1] = "func"
               THEN store.tabs[LastFrame].symbols[<<"x">>].t = "Function"
               ELSE IsInt(store.tabs[LastFrame].symbols[<<"x">>], c[3])
            /\ global_symbol_table \in Ancestors(store.tabs, LastFrame)
            /\ \A a \in Ancestors(store.tabs, LastFrame) \ {global_symbol_table} :
                   <<"x">> \notin DOMAIN store.tabs[a].symbols
            /\ \A k \in 1..Len(store.log) :
                   (store.log[k].ev = "set" /\ store.log[k].name = <<"x">>) =>
                       store.log[k].idx \in {global_symbol_table, LastFrame}

\* x is 1 in the global table and 2 in the frame of the call of g, which
\* the call of k made
C27_Witness ==
    /\ out.text = FrameText("nested", 1, 2)
    /\ out.error.name = "None"
    /\ Cardinality(Ancestors(store.tabs, LastFrame)) = 2
    /\ IsInt(store.tabs[LastFrame].symbols[<<"x">>], 2)
    /\ IsInt(GlobalsOf(store)[<<"x">>], 1)

\* the writes to symbol tables that the call of run made, in order: the
\* name and the table of each
RECURSIVE SetsOf(_)
SetsOf(log) ==
    IF log = <<>> THEN <<>>
    ELSE IF Head(log).ev = "set"
    THEN << <<Head(log).name, Head(log).idx>> >> \o SetsOf(Tail(log))
    ELSE SetsOf(Tail(log))

\* the writes of each form in source order, G the global table and F the
\* tables of the calls in the order of the calls
ExpectedSets(form) ==
    LET G == global_symbol_table
    IN  CASE form = "operands" -> << <<<<"x">>, G>>, <<<<"x">>, G>> >>
          [] form = "appends" ->
               << <<<<"l">>, G>>, <<<<"l", "i", "s", "t">>, G + 1>>, <<<<"v", "a", "l", "u", "e">>, G + 1>>,
                  <<<<"l", "i", "s", "t">>, G + 2>>, <<<<"v", "a", "l", "u", "e">>, G + 2>> >>
          [] form = "call" ->
               << <<<<"f">>, G>>, <<<<"h">>, G>>, <<<<"x">>, G>>, <<<<"x">>, G>>,
                  <<<<"a">>, G + 1>>, <<<<"b">>, G + 1>>, <<<<"y">>, G + 1>> >>
          [] form = "elements" -> << <<<<"x">>, G>>, <<<<"x">>, G>> >>

\* C28: the order of evaluation is the order of the source: the left
\* operand with its writes to symbol tables and lists before the right one,
\* the callee before the arguments, the arguments from left to right before
\* the body of the function, the elements of a list from left to right
C28_EvaluationOrder ==
    \A c \in OrderCases :
        out.text = OrderText(c[1], c[2], c[3], c[4]) =>
            /\ out.stage = "eval"
            /\ out.error.name = "None"
            /\ SetsOf(store.log) = ExpectedSets(c[1])
            /\ c[1] = "appends" =>
                   IsListOf(GlobalsOf(store)[<<"l">>], <<c[3], c[4]>>)
            /\ c[1] # "appends" => IsInt(GlobalsOf(store)[<<"x">>], c[4])
            /\ c[1] = "call" =>
                   /\ IsInt(store.tabs[LastFrame].symbols[<<"a">>], c[3])
                   /\ IsInt(store.tabs[LastFrame].symbols[<<"b">>], c[4])

\* the callee binds h, the arguments bind x to 1 and then to 2, and the
\* body runs on a = 1 and b = 2
C28_Witness ==
    /\ out.text = OrderText("call", <<"+">>, 1, 2)
    /\ out.error.name = "None"
    /\ IsInt(GlobalsOf(store)[<<"x">>], 2)
    /\ IsInt(store.tabs[LastFrame].symbols[<<"y">>], -1)

\* C29: unary - on a value that is no Number, a String, a List, a Function
\* or a BuiltInFunction, makes the Runtime error IllegalOperationError and
\* yields no value
C29_NegateNonNumber ==
    out.text \in NegTexts =>
        /\ out.stage = "eval"
        /\ out.error.name = "RuntimeError"
        /\ out.error.msg = <<"IllegalOperationError">>
        /\ out.value.t = "List" =>
               LET elements == store.bufs[out.value.buf]
               IN  elements[Len(elements)].t = "None"

\* run returned the list of the one statement's value, a List of n elements
YieldsLength(n) ==
    /\ out.stage = "eval"
    /\ out.error.name = "None"
    /\ out.value.t = "List"
    /\ Len(store.bufs[out.value.buf]) = 1
    /\ store.bufs[out.value.buf][1].t = "List"
    /\ Len(store.bufs[store.bufs[out.value.buf][1].buf]) = n

\* C30: every for loop whose start, end and step are Numbers and whose body
\* ends does end, for every step and for the step 0, and the number of its
\* iterations is the one that start, end and step fix at the entry of the
\* loop, also when the body binds the loop variable again
C30_ForTerminates ==
    /\ \A x \in ZeroStepCases :
           out.text = ForText(x[1], x[2], x[3], <<"i">>) =>
               /\ out.stage = "eval"
               /\ out.exc = ""
    /\ \A x \in ForCases :
           out.text \in {ForText(x[1], x[2], x[3], <<"i">>),
                         ForText(x[1], x[2], x[3], Body_Reassign)} =>
               YieldsLength(Len(ForValues(x[1], x[2], StepValue(x[3]))))

====
